---- MODULE Spec2Model ----
(***************************************************************************)
(* Concept-graph maintenance of the readiness backend:                     *)
(*   services/graph_service.py  build_graph, graph_to_json, validate_graph,*)
(*                              _find_cycle, apply_patch                   *)
(*   routers/graph.py           patch_graph (PATCH /exams/{id}/graph)      *)
(*   database.py                get_db (one session per request, commit    *)
(*                              after the handler returned)                *)
(* Weights are kept in tenths: the float w is the integer 10*w, so the     *)
(* range [0,1] is 0..10 and the default 0.5 is 5.                          *)
(*                                                                         *)
(* Readiness computation:                                                  *)
(*   services/compute_service.py  the four stages, confidence, class       *)
(*                              aggregates, run_readiness_pipeline         *)
(*   services/graph_service.py  get_topological_order                      *)
(*   routers/compute.py         compute_readiness (POST /exams/{id}/compute)*)
(* The floats of the pipeline are kept as exact fractions [n, d], d > 0,   *)
(* in lowest terms; NaN ("no direct readiness") is the Optional None.      *)
(***************************************************************************)
EXTENDS Integers, Sequences, FiniteSets, TLC

VARIABLES snapshots, sess, nAccepted, call, exam, run

vars == <<snapshots, sess, nAccepted, call, exam, run>>

(***************************************************************************)
(* Bounds of the model.                                                    *)
(***************************************************************************)
\* total number of operations in one patch body
MaxOps == 2
\* number of snapshot rows the store may hold before PATCH requests stop
MaxSnapshots == 3
\* operations in a patch body when two requests interleave
MaxConcOps == 1
\* number of edges of a graph JSON handed to validate_graph / build_graph
MaxEdges == 2

Ids == {"A", "B", "C"}
Labels == {"L"}
\* 0.5, 1.0 (in range) and 1.1 (out of range)
PatchWeights == {5, 10, 11}
\* -0.1, 0.0, 1.0, 1.1
JsonWeights == {-1, 0, 10, 11}
Sessions == {1, 2}

NoLabel == "~"
\* Optional[...]: None, or a value
None == [some |-> FALSE]
Some(x) == [some |-> TRUE, val |-> x]

(***************************************************************************)
(* Generic helpers.                                                        *)
(***************************************************************************)
Range(s) == {s[i] : i \in 1..Len(s)}

\* TRUE.  An argument of an operator is computed where it is first used;
\* a loop asks this of its working value at every step, so that the steps
\* are computed one after another and not one inside another.
Evaluated(x) == x = x

\* y, computed after x: the statements of a function run in their order
After(x, y) == IF Evaluated(x) THEN y ELSE y

SeqsUpTo(S, n) == UNION {[1..k -> S] : k \in 0..n}

(***************************************************************************)
(* Fractions.                                                              *)
(***************************************************************************)
Abs(i) == IF i < 0 THEN -i ELSE i

RECURSIVE Gcd(_, _)
Gcd(a, b) == IF b = 0 THEN a ELSE Gcd(b, a % b)

\* the fraction n/d (d # 0) in lowest terms with a positive denominator
Rat(n, d) ==
    LET g == Gcd(Abs(n), Abs(d))
        sgn == IF d < 0 THEN -1 ELSE 1
    IN [n |-> sgn * (n \div g), d |-> sgn * (d \div g)]

Zero == Rat(0, 1)
One == Rat(1, 1)
\* an integer, and a number given in tenths, as fractions
Int2Rat(i) == Rat(i, 1)
Tenths(w) == Rat(w, 10)

\* the operations cancel common factors before they multiply, so that the
\* intermediate products stay small
RAdd(a, b) ==
    LET g == Gcd(a.d, b.d)
    IN Rat(a.n * (b.d \div g) + b.n * (a.d \div g), (a.d \div g) * b.d)
RNeg(a) == [n |-> -a.n, d |-> a.d]
RSub(a, b) == RAdd(a, RNeg(b))
RMul(a, b) ==
    LET g1 == Gcd(Abs(a.n), b.d)
        g2 == Gcd(Abs(b.n), a.d)
    IN IF a.n = 0 \/ b.n = 0 THEN [n |-> 0, d |-> 1]
       ELSE [n |-> (a.n \div g1) * (b.n \div g2), d |-> (a.d \div g2) * (b.d \div g1)]
\* a / b for b # 0
RDiv(a, b) == RMul(a, IF b.n < 0 THEN [n |-> -b.d, d |-> -b.n] ELSE [n |-> b.d, d |-> b.n])
RLt(a, b) ==
    LET g == Gcd(a.d, b.d)
    IN a.n * (b.d \div g) < b.n * (a.d \div g)
RLe(a, b) ==
    LET g == Gcd(a.d, b.d)
    IN a.n * (b.d \div g) <= b.n * (a.d \div g)
RMax(a, b) == IF RLt(a, b) THEN b ELSE a
RMin(a, b) == IF RLt(b, a) THEN b ELSE a

\* the sum of the fractions of a sequence
RECURSIVE RSumFrom(_, _)
RSumFrom(acc, s) ==
    IF s = <<>> \/ ~Evaluated(acc) THEN acc ELSE RSumFrom(RAdd(acc, Head(s)), Tail(s))
RSum(s) == RSumFrom(Zero, s)

(***************************************************************************)
(* networkx.DiGraph as the code uses it: nodes in insertion order, each    *)
(* with an optional "label" attribute; edges in insertion order, at most   *)
(* one per ordered pair, each with a "weight" attribute.                   *)
(***************************************************************************)
EmptyGraph == [nodes |-> <<>>, edges |-> <<>>]

NodeIds(G) == {G.nodes[i].id : i \in 1..Len(G.nodes)}

HasNode(G, n) == n \in NodeIds(G)

HasEdge(G, u, v) == \E i \in 1..Len(G.edges) : G.edges[i].source = u /\ G.edges[i].target = v

\* G.add_node(n, label=l): a new node is appended, an existing one keeps its
\* place and takes the new attribute
AddNode(G, n, l) ==
    IF HasNode(G, n)
    THEN [G EXCEPT !.nodes = [i \in 1..Len(G.nodes) |->
                 IF G.nodes[i].id = n THEN [id |-> n, label |-> l] ELSE G.nodes[i]]]
    ELSE [G EXCEPT !.nodes = Append(G.nodes, [id |-> n, label |-> l])]

\* mutant: add_edge creates no node
ImplicitNodeSkipped(G, n) == G

\* the node add_edge creates for an endpoint that is not in the graph: no label
ImplicitNode(G, n) ==
    IF HasNode(G, n) THEN G
    ELSE [G EXCEPT !.nodes = Append(G.nodes, [id |-> n, label |-> NoLabel])]

\* mutant: an existing edge keeps its weight
AddEdgeKeepWeight(G, u, v, w) ==
    LET G1 == ImplicitNode(ImplicitNode(G, u), v) IN
    IF HasEdge(G1, u, v) THEN G1
    ELSE [G1 EXCEPT !.edges = Append(G1.edges, [source |-> u, target |-> v, weight |-> w])]

\* G.add_edge(u, v, weight=w): missing endpoints are created, an existing
\* edge keeps its place and takes the new weight
AddEdge(G, u, v, w) ==
    LET G1 == ImplicitNode(ImplicitNode(G, u), v) IN
    IF HasEdge(G1, u, v)
    THEN [G1 EXCEPT !.edges = [i \in 1..Len(G1.edges) |->
                 IF G1.edges[i].source = u /\ G1.edges[i].target = v
                 THEN [source |-> u, target |-> v, weight |-> w] ELSE G1.edges[i]]]
    ELSE [G1 EXCEPT !.edges = Append(G1.edges, [source |-> u, target |-> v, weight |-> w])]

\* G.remove_node(n): the node and every edge into or out of it
RemoveNode(G, n) ==
    [nodes |-> SelectSeq(G.nodes, LAMBDA x : x.id # n),
     edges |-> SelectSeq(G.edges, LAMBDA e : e.source # n /\ e.target # n)]

\* G.remove_edge(u, v)
RemoveEdge(G, u, v) ==
    [G EXCEPT !.edges = SelectSeq(G.edges, LAMBDA e : ~(e.source = u /\ e.target = v))]

\* G.successors(u), in adjacency order
Successors(G, u) ==
    LET out == SelectSeq(G.edges, LAMBDA e : e.source = u)
    IN [i \in 1..Len(out) |-> out[i].target]

InDegree(G, n) == Cardinality({i \in 1..Len(G.edges) : G.edges[i].target = n})

\* G.edges(data=True): node by node in node order, each node's out-edges in
\* adjacency order
RECURSIVE EdgesByNode(_, _)
EdgesByNode(G, ns) ==
    IF ns = <<>> THEN <<>>
    ELSE SelectSeq(G.edges, LAMBDA e : e.source = Head(ns).id) \o EdgesByNode(G, Tail(ns))

EdgeView(G) == EdgesByNode(G, G.nodes)

(***************************************************************************)
(* build_graph and graph_to_json.                                          *)
(***************************************************************************)
\* edge.get("weight", 0.5)
WeightOf(e) == IF "weight" \in DOMAIN e THEN e.weight ELSE 5

\* node.get("label", node["id"])
LabelOf(node) == IF "label" \in DOMAIN node THEN node.label ELSE node.id

RECURSIVE BuildNodes(_, _)
BuildNodes(G, ns) ==
    IF ns = <<>> \/ ~Evaluated(G) THEN G
    ELSE BuildNodes(AddNode(G, Head(ns).id, LabelOf(Head(ns))), Tail(ns))

RECURSIVE BuildEdges(_, _)
BuildEdges(G, es) ==
    IF es = <<>> \/ ~Evaluated(G) THEN G
    ELSE BuildEdges(AddEdge(G, Head(es).source, Head(es).target, WeightOf(Head(es))), Tail(es))

build_graph(graph_json) == BuildEdges(BuildNodes(EmptyGraph, graph_json.nodes), graph_json.edges)

\* mutant: every node is given its id as its label
graph_to_json_ids_as_labels(G) ==
    [nodes |-> [i \in 1..Len(G.nodes) |-> [id |-> G.nodes[i].id, label |-> G.nodes[i].id]],
     edges |-> EdgeView(G)]

graph_to_json(G) ==
    [nodes |-> [i \in 1..Len(G.nodes) |->
                  [id |-> G.nodes[i].id,
                   label |-> IF G.nodes[i].label = NoLabel THEN G.nodes[i].id
                             ELSE G.nodes[i].label]],
     edges |-> EdgeView(G)]

(***************************************************************************)
(* nx.topological_sort (generations of zero in-degree nodes) and           *)
(* nx.is_directed_acyclic_graph, which is "topological_sort does not       *)
(* raise NetworkXUnfeasible".                                              *)
(***************************************************************************)
RECURSIVE ProcessChildren(_, _)
ProcessChildren(st, children) ==
    IF children = <<>> \/ ~Evaluated(st) THEN st
    ELSE LET c == Head(children)
             d == st.indegree[c] - 1
         IN ProcessChildren([indegree |-> [st.indegree EXCEPT ![c] = d],
                             zero |-> IF d = 0 THEN Append(st.zero, c) ELSE st.zero],
                            Tail(children))

RECURSIVE ProcessGeneration(_, _, _)
ProcessGeneration(G, st, generation) ==
    IF generation = <<>> \/ ~Evaluated(st) THEN st
    ELSE ProcessGeneration(G, ProcessChildren(st, Successors(G, Head(generation))),
                           Tail(generation))

RECURSIVE Generations(_, _, _)
Generations(G, st, order) ==
    IF st.zero = <<>>
    THEN [order |-> order, unfeasible |-> \E n \in NodeIds(G) : st.indegree[n] > 0]
    ELSE Generations(G,
                     ProcessGeneration(G, [indegree |-> st.indegree, zero |-> <<>>], st.zero),
                     order \o st.zero)

topological_sort(G) ==
    LET ids == [i \in 1..Len(G.nodes) |-> G.nodes[i].id]
    IN Generations(G,
                   [indegree |-> [n \in NodeIds(G) |-> InDegree(G, n)],
                    zero |-> SelectSeq(ids, LAMBDA n : InDegree(G, n) = 0)],
                   <<>>)

is_directed_acyclic_graph(G) == ~topological_sort(G).unfeasible

(***************************************************************************)
(* nx.find_cycle(G, orientation="original"): a depth-first edge traversal  *)
(* from each node in node order; it stops at the first edge whose head is  *)
(* on the active path and returns the edges of the path from that head on, *)
(* that edge last.  <<>> stands for NetworkXNoCycle.                       *)
(***************************************************************************)
IndexOf(path, n) == CHOOSE i \in 1..Len(path) : path[i] = n

\* the edges along path[k..], closed by the edge from its last node to head
PathEdges(path, k, head) ==
    [i \in 1..(Len(path) - k + 1) |->
        IF k + i - 1 < Len(path) THEN <<path[k + i - 1], path[k + i]>>
        ELSE <<path[Len(path)], head>>]

RECURSIVE EdgeDfs(_, _, _, _)
EdgeDfs(G, path, seen, succs) ==
    IF succs = <<>> THEN [cycle |-> <<>>, seen |-> seen]
    ELSE LET head == Head(succs) IN
         IF head \in Range(path)
         THEN [cycle |-> PathEdges(path, IndexOf(path, head), head), seen |-> seen]
         ELSE IF head \in seen
         THEN EdgeDfs(G, path, seen, Tail(succs))
         ELSE LET r == EdgeDfs(G, Append(path, head), seen \cup {head}, Successors(G, head))
              IN IF r.cycle # <<>> THEN r
                 ELSE EdgeDfs(G, path, r.seen, Tail(succs))

RECURSIVE FindCycleFrom(_, _, _)
FindCycleFrom(G, starts, explored) ==
    IF starts = <<>> THEN <<>>
    ELSE LET start == Head(starts).id IN
         IF start \in explored THEN FindCycleFrom(G, Tail(starts), explored)
         ELSE LET r == EdgeDfs(G, <<start>>, explored \cup {start}, Successors(G, start))
              IN IF r.cycle # <<>> THEN r.cycle
                 ELSE FindCycleFrom(G, Tail(starts), r.seen)

nx_find_cycle(G) == FindCycleFrom(G, G.nodes, {})

\* mutant: the path is not closed by the head of the last edge
find_cycle_open(G) ==
    LET cycle_edges == nx_find_cycle(G) IN
    [i \in 1..Len(cycle_edges) |-> cycle_edges[i][1]]

\* _find_cycle: [e[0] for e in cycle_edges] + [cycle_edges[-1][1]], and []
\* when nx finds no cycle
find_cycle(G) ==
    LET cycle_edges == nx_find_cycle(G) IN
    IF cycle_edges = <<>> THEN <<>>
    ELSE [i \in 1..Len(cycle_edges) |-> cycle_edges[i][1]]
         \o <<cycle_edges[Len(cycle_edges)][2]>>

(***************************************************************************)
(* validate_graph: (is_valid, errors, cycle_path_or_none).                 *)
(***************************************************************************)
Error(field, message) == [field |-> field, message |-> message]

RowError(row, field, message) == [row |-> row, field |-> field, message |-> message]

EdgeErrors(node_ids, edge, i) ==
    (IF edge.source \notin node_ids
     THEN <<RowError(i, "source", "not a defined node")>> ELSE <<>>)
    \o (IF edge.target \notin node_ids
        THEN <<RowError(i, "target", "not a defined node")>> ELSE <<>>)
    \o (IF WeightOf(edge) < 0 \/ WeightOf(edge) > 10
        THEN <<RowError(i, "weight", "must be in [0, 1]")>> ELSE <<>>)

\* mutant: the pass stops at the first edge that has an error
RECURSIVE EdgeCheckFirstOnly(_, _, _)
EdgeCheckFirstOnly(node_ids, edges, i) ==
    IF i > Len(edges) THEN <<>>
    ELSE IF EdgeErrors(node_ids, edges[i], i - 1) # <<>>
    THEN EdgeErrors(node_ids, edges[i], i - 1)
    ELSE EdgeCheckFirstOnly(node_ids, edges, i + 1)

RECURSIVE EdgeCheck(_, _, _)
EdgeCheck(node_ids, edges, i) ==
    IF i > Len(edges) THEN <<>>
    ELSE EdgeErrors(node_ids, edges[i], i - 1) \o EdgeCheck(node_ids, edges, i + 1)

validate_graph(graph_json) ==
    LET node_ids == {graph_json.nodes[i].id : i \in 1..Len(graph_json.nodes)}
        errors == EdgeCheck(node_ids, graph_json.edges, 1)
        G == build_graph(graph_json)
    IN IF errors # <<>>
       THEN [ok |-> FALSE, errors |-> errors, cycle_path |-> None]
       ELSE IF ~is_directed_acyclic_graph(G)
       THEN [ok |-> FALSE,
             errors |-> <<Error("", "Graph contains a cycle")>>,
             cycle_path |-> Some(find_cycle(G))]
       ELSE [ok |-> TRUE, errors |-> <<>>, cycle_path |-> None]

(***************************************************************************)
(* apply_patch: (updated_graph_json, is_dag, cycle_path, errors).  The     *)
(* four loops work on one graph G built from graph_json and collect their  *)
(* errors; st is [G, errors].                                              *)
(***************************************************************************)
RECURSIVE PatchAddNodes(_, _)
PatchAddNodes(st, add_nodes) ==
    IF add_nodes = <<>> THEN st
    ELSE LET node == Head(add_nodes) IN
         PatchAddNodes(
            IF HasNode(st.G, node.id)
            THEN [st EXCEPT !.errors = Append(@, Error("add_nodes", "already exists"))]
            ELSE [st EXCEPT !.G = AddNode(@, node.id, node.label)],
            Tail(add_nodes))

\* mutant: removing a node that still has edges is reported as an error
RemoveNodeStepEdgeError(st, node_id) ==
    IF ~HasNode(st.G, node_id)
       \/ \E i \in 1..Len(st.G.edges) : node_id \in {st.G.edges[i].source, st.G.edges[i].target}
    THEN [st EXCEPT !.errors = Append(@, Error("remove_nodes", "does not exist"))]
    ELSE [st EXCEPT !.G = RemoveNode(@, node_id)]

\* one entry of remove_nodes
RemoveNodeStep(st, node_id) ==
    IF ~HasNode(st.G, node_id)
    THEN [st EXCEPT !.errors = Append(@, Error("remove_nodes", "does not exist"))]
    ELSE [st EXCEPT !.G = RemoveNode(@, node_id)]

RECURSIVE PatchRemoveNodes(_, _)
PatchRemoveNodes(st, remove_nodes) ==
    IF remove_nodes = <<>> THEN st
    ELSE PatchRemoveNodes(RemoveNodeStep(st, Head(remove_nodes)), Tail(remove_nodes))

RECURSIVE PatchAddEdges(_, _)
PatchAddEdges(st, add_edges) ==
    IF add_edges = <<>> THEN st
    ELSE LET edge == Head(add_edges) IN
         PatchAddEdges(
            IF ~HasNode(st.G, edge.source)
            THEN [st EXCEPT !.errors = Append(@, Error("add_edges", "source does not exist"))]
            ELSE IF ~HasNode(st.G, edge.target)
            THEN [st EXCEPT !.errors = Append(@, Error("add_edges", "target does not exist"))]
            ELSE IF edge.weight < 0 \/ edge.weight > 10
            THEN [st EXCEPT !.errors = Append(@, Error("add_edges", "must be in [0, 1]"))]
            ELSE [st EXCEPT !.G = AddEdge(@, edge.source, edge.target, edge.weight)],
            Tail(add_edges))

RECURSIVE PatchRemoveEdges(_, _)
PatchRemoveEdges(st, remove_edges) ==
    IF remove_edges = <<>> THEN st
    ELSE LET edge == Head(remove_edges) IN
         PatchRemoveEdges(
            IF HasEdge(st.G, edge.source, edge.target)
            THEN [st EXCEPT !.G = RemoveEdge(@, edge.source, edge.target)]
            ELSE [st EXCEPT !.errors = Append(@, Error("remove_edges", "does not exist"))],
            Tail(remove_edges))

\* mutant: the loops after a list that reported an error are skipped
PatchLoopsFailFast(graph_json, patch) ==
    LET s1 == PatchAddNodes([G |-> build_graph(graph_json), errors |-> <<>>], patch.add_nodes)
        s2 == IF s1.errors # <<>> THEN s1 ELSE PatchRemoveNodes(s1, patch.remove_nodes)
        s3 == IF s2.errors # <<>> THEN s2 ELSE PatchAddEdges(s2, patch.add_edges)
    IN IF s3.errors # <<>> THEN s3 ELSE PatchRemoveEdges(s3, patch.remove_edges)

\* mutant: add_edges runs before add_nodes and remove_nodes
PatchLoopsEdgesFirst(graph_json, patch) ==
    PatchRemoveEdges(
      PatchRemoveNodes(
        PatchAddNodes(
          PatchAddEdges([G |-> build_graph(graph_json), errors |-> <<>>], patch.add_edges),
          patch.add_nodes),
        patch.remove_nodes),
      patch.remove_edges)

\* the four loops, in the order the code runs them
PatchLoops(graph_json, patch) ==
    PatchRemoveEdges(
      PatchAddEdges(
        PatchRemoveNodes(
          PatchAddNodes([G |-> build_graph(graph_json), errors |-> <<>>], patch.add_nodes),
          patch.remove_nodes),
        patch.add_edges),
      patch.remove_edges)

\* mutant: a rejected patch hands back the working graph
PatchOutcomeHalfApplied(graph_json, st) ==
    IF st.errors # <<>>
    THEN [graph |-> graph_to_json(st.G), is_dag |-> FALSE, cycle_path |-> None,
          errors |-> st.errors]
    ELSE IF ~is_directed_acyclic_graph(st.G)
    THEN [graph |-> graph_json, is_dag |-> FALSE, cycle_path |-> Some(find_cycle(st.G)),
          errors |-> <<Error("", "Patch would create a cycle")>>]
    ELSE [graph |-> graph_to_json(st.G), is_dag |-> TRUE, cycle_path |-> None, errors |-> <<>>]

\* mutant: the patched graph is not checked for cycles
PatchOutcomeNoDagCheck(graph_json, st) ==
    IF st.errors # <<>>
    THEN [graph |-> graph_json, is_dag |-> FALSE, cycle_path |-> None, errors |-> st.errors]
    ELSE [graph |-> graph_to_json(st.G), is_dag |-> TRUE, cycle_path |-> None, errors |-> <<>>]

\* what apply_patch returns once the loops ran
PatchOutcome(graph_json, st) ==
    IF st.errors # <<>>
    THEN [graph |-> graph_json, is_dag |-> FALSE, cycle_path |-> None, errors |-> st.errors]
    ELSE IF ~is_directed_acyclic_graph(st.G)
    THEN [graph |-> graph_json, is_dag |-> FALSE, cycle_path |-> Some(find_cycle(st.G)),
          errors |-> <<Error("", "Patch would create a cycle")>>]
    ELSE [graph |-> graph_to_json(st.G), is_dag |-> TRUE, cycle_path |-> None, errors |-> <<>>]

apply_patch(graph_json, patch) == PatchOutcome(graph_json, PatchLoops(graph_json, patch))

(***************************************************************************)
(* The request bodies of PATCH /graph (GraphPatchRequest): four lists with *)
(* at most MaxOps entries in all.                                          *)
(***************************************************************************)
GraphNodes == [id : Ids, label : Labels]
GraphEdges == [source : Ids, target : Ids, weight : PatchWeights]
\* a remove_edges entry is a GraphEdge whose weight is left at its default
RemoveEdges == [source : Ids, target : Ids, weight : {5}]

Shapes(n) == {t \in [1..4 -> 0..n] : t[1] + t[2] + t[3] + t[4] <= n}

BodiesUpTo(n) ==
    UNION {[add_nodes : [1..t[1] -> GraphNodes], remove_nodes : [1..t[2] -> Ids],
            add_edges : [1..t[3] -> GraphEdges], remove_edges : [1..t[4] -> RemoveEdges]]
           : t \in Shapes(n)}

Bodies == BodiesUpTo(MaxOps)

\* the bodies of two requests that run at the same time
ConcBodies == BodiesUpTo(MaxConcOps)

EmptyBody == [add_nodes |-> <<>>, remove_nodes |-> <<>>, add_edges |-> <<>>, remove_edges |-> <<>>]

(***************************************************************************)
(* The store and the request sessions.  snapshots is the concept_graphs    *)
(* table of one exam (committed rows, in commit order); a session runs     *)
(* patch_graph, then get_db commits what it flushed, then closes.          *)
(***************************************************************************)
NodeJson(n) == [id |-> n, label |-> "L"]
EdgeJson(u, v, w) == [source |-> u, target |-> v, weight |-> w]

\* the uploaded graphs the exam starts from: A -> B (0.5), and A -> B -> C
InitialGraphs ==
    {[nodes |-> <<NodeJson("A"), NodeJson("B")>>, edges |-> <<EdgeJson("A", "B", 5)>>],
     [nodes |-> <<NodeJson("A"), NodeJson("B"), NodeJson("C")>>,
      edges |-> <<EdgeJson("A", "B", 5), EdgeJson("B", "C", 10)>>]}

InitialVersion == 1

EmptyJson == [nodes |-> <<>>, edges |-> <<>>]
NoRow == [version |-> 0, graph_json |-> EmptyJson]
NoResult == [graph |-> EmptyJson, is_dag |-> FALSE, cycle_path |-> None, errors |-> <<>>]
NoResponse == [status |-> "", is_dag |-> FALSE, cycle_path |-> None]
Idle == [pc |-> "idle", body |-> EmptyBody, graph_row |-> NoRow, result |-> NoResult,
         pending |-> <<>>, response |-> NoResponse]
NoCall == [op |-> "", arg |-> EmptyJson, result |-> None]

\* select(ConceptGraph).order_by(version.desc()).limit(1): a row of the
\* highest version; which one, when several rows share it, is up to the
\* database
MaxVersion(rows) == CHOOSE v \in {rows[i].version : i \in 1..Len(rows)} :
                        \A i \in 1..Len(rows) : rows[i].version <= v
LatestRows(rows) == {rows[i] : i \in {j \in 1..Len(rows) : rows[j].version = MaxVersion(rows)}}

\* rows in the store or flushed by a session that has not committed yet
RowsInFlight == Len(snapshots) + Cardinality({s \in Sessions : sess[s].pending # <<>>})

\* what patch_graph answers and adds to its session, given the row it read
PatchResponse(graph_row, result) ==
    IF result.errors # <<>>
    THEN [status |-> "error", is_dag |-> result.is_dag, cycle_path |-> result.cycle_path]
    ELSE [status |-> "success", is_dag |-> TRUE, cycle_path |-> None]

\* mutant: the new row takes the version of the row that was read
PatchPendingSameVersion(graph_row, result) ==
    IF result.errors # <<>> THEN <<>>
    ELSE <<[version |-> graph_row.version, graph_json |-> result.graph]>>

PatchPending(graph_row, result) ==
    IF result.errors # <<>> THEN <<>>
    ELSE <<[version |-> graph_row.version + 1, graph_json |-> result.graph]>>

\* patch_graph: read the latest row, apply the patch, answer; an accepted
\* patch adds a row to the session and flushes it
PatchGraph(s, body) ==
    /\ sess[s].pc = "idle"
    /\ RowsInFlight < MaxSnapshots
    /\ \E graph_row \in LatestRows(snapshots) :
         LET result == apply_patch(graph_row.graph_json, body) IN
         sess' = [sess EXCEPT ![s] = [pc |-> "returned", body |-> body,
                                      graph_row |-> graph_row, result |-> result,
                                      pending |-> PatchPending(graph_row, result),
                                      response |-> PatchResponse(graph_row, result)]]
    /\ UNCHANGED <<snapshots, nAccepted, call, exam, run>>

\* mutant: the commit overwrites the row that was read with the new one
CommitInPlace(s) ==
    /\ sess[s].pc = "returned"
    /\ snapshots' = IF sess[s].pending = <<>> THEN snapshots
                    ELSE [i \in DOMAIN snapshots |->
                             IF snapshots[i] = sess[s].graph_row THEN sess[s].pending[1]
                             ELSE snapshots[i]]
    /\ nAccepted' = nAccepted + (IF sess[s].response.status = "success" THEN 1 ELSE 0)
    /\ sess' = [sess EXCEPT ![s].pc = "committed"]
    /\ UNCHANGED <<call, exam, run>>

\* get_db after the handler returned: session.commit()
Commit(s) ==
    /\ sess[s].pc = "returned"
    /\ snapshots' = snapshots \o sess[s].pending
    /\ nAccepted' = nAccepted + (IF sess[s].response.status = "success" THEN 1 ELSE 0)
    /\ sess' = [sess EXCEPT ![s].pc = "committed"]
    /\ UNCHANGED <<call, exam, run>>

\* get_db: session.close(); the request is over
Close(s) ==
    /\ sess[s].pc = "committed"
    /\ sess' = [sess EXCEPT ![s] = Idle]
    /\ UNCHANGED <<snapshots, nAccepted, call, exam, run>>

\* the tables a compute run rewrites, and the student tokens it adds to
NoTables ==
    [readiness_results |-> {}, class_aggregates |-> {}, clusters |-> {},
     cluster_assignments |-> {}, student_tokens |-> {}]

\* the other tables of the exam: questions (max_score by external id),
\* scores, question_concept_map and parameters rows, and the stored results
NoExam == [max_score |-> <<>>, scores |-> <<>>, qcm |-> <<>>, parameters |-> None,
           stored |-> NoTables]

\* ComputeRequest()
DefaultBody == [alpha |-> One, beta |-> Rat(3, 10), gamma |-> Rat(2, 10),
                threshold |-> Rat(6, 10)]

\* no compute request in progress and none served yet
NoBundle == [n |-> 0, readiness_results |-> {}, class_aggregates |-> {}, clusters |-> {},
             cluster_assignments |-> {}]
NoRun == [pc |-> "idle", n |-> 0, body |-> DefaultBody, fault |-> "none", status |-> 0,
          computed |-> FALSE,
          before |-> NoTables, view |-> NoTables, bundle |-> NoBundle,
          installed |-> NoBundle]

Init ==
    /\ \E g \in InitialGraphs : snapshots = <<[version |-> InitialVersion, graph_json |-> g]>>
    /\ sess = [s \in Sessions |-> Idle]
    /\ nAccepted = 0
    /\ call = NoCall
    /\ exam = NoExam
    /\ run = NoRun

\* PATCH requests processed one after another: one session
Next ==
    \/ \E body \in Bodies : PatchGraph(1, body)
    \/ Commit(1)
    \/ Close(1)

Spec == Init /\ [][Next]_vars

\* PATCH requests of two clients, interleaved
NextConc ==
    \/ \E s \in Sessions : \E body \in ConcBodies : PatchGraph(s, body)
    \/ \E s \in Sessions : Commit(s)
    \/ \E s \in Sessions : Close(s)

SpecConc == Init /\ [][NextConc]_vars

(***************************************************************************)
(* validate_graph and build_graph as functions of a graph JSON: the input  *)
(* is drawn from the graph JSONs with at most MaxEdges edges, each edge    *)
(* with a weight or without one, over the node lists below.                *)
(***************************************************************************)
NodeLists ==
    {<<>>, <<NodeJson("A")>>, <<NodeJson("B")>>, <<NodeJson("C")>>,
     <<NodeJson("A"), NodeJson("B")>>, <<NodeJson("B"), NodeJson("A")>>,
     <<NodeJson("B"), NodeJson("C")>>, <<NodeJson("A"), NodeJson("B"), NodeJson("C")>>}

JsonEdges == [source : Ids, target : Ids, weight : JsonWeights] \cup [source : Ids, target : Ids]

GraphJsons == [nodes : NodeLists, edges : SeqsUpTo(JsonEdges, MaxEdges)]

Validate ==
    /\ call.op = "input"
    /\ call' = [op |-> "validate_graph", arg |-> call.arg, result |-> validate_graph(call.arg)]
    /\ UNCHANGED <<snapshots, sess, nAccepted, exam, run>>

Build ==
    /\ call.op = "input"
    /\ call' = [op |-> "build_graph", arg |-> call.arg, result |-> build_graph(call.arg)]
    /\ UNCHANGED <<snapshots, sess, nAccepted, exam, run>>

InitJson ==
    /\ snapshots = <<>>
    /\ sess = [s \in Sessions |-> Idle]
    /\ nAccepted = 0
    /\ \E x \in GraphJsons : call = [op |-> "input", arg |-> x, result |-> None]
    /\ exam = NoExam
    /\ run = NoRun

NextJson == Validate \/ Build

SpecJson == InitJson /\ [][NextJson]_vars

(***************************************************************************)
(* What the claims speak of, stated over sets and independently of the     *)
(* loops above: the nodes and edges a patch is meant to leave, the entries *)
(* of a patch that are meant to fail, and acyclicity.                      *)
(***************************************************************************)
JsonIds(j) == {j.nodes[i].id : i \in 1..Len(j.nodes)}
Pair(e) == <<e.source, e.target>>
JsonPairs(j) == {Pair(j.edges[i]) : i \in 1..Len(j.edges)}

\* no non-empty set of nodes in which every node has an edge into the set
Acyclic(ids, pairs) ==
    \A S \in SUBSET ids : S = {} \/ \E n \in S : \A m \in S : <<n, m>> \notin pairs

\* path is a closed walk of the edges in pairs
IsCycleOf(path, pairs) ==
    /\ Len(path) >= 2
    /\ path[1] = path[Len(path)]
    /\ \A i \in 1..(Len(path) - 1) : <<path[i], path[i + 1]>> \in pairs

AddedIds(body) == {body.add_nodes[i].id : i \in 1..Len(body.add_nodes)}
RemovedIds(body) == Range(body.remove_nodes)

\* node ids after add_nodes and remove_nodes
IdsAfterNodes(j, body) == (JsonIds(j) \cup AddedIds(body)) \ RemovedIds(body)

ExpectedNodes(j, body) ==
    {n \in Range(j.nodes) \cup Range(body.add_nodes) : n.id \notin RemovedIds(body)}

\* the add_edges entries that are meant to be accepted
GoodAdd(j, body, i) ==
    LET e == body.add_edges[i] IN
    /\ e.source \in IdsAfterNodes(j, body)
    /\ e.target \in IdsAfterNodes(j, body)
    /\ e.weight >= 0 /\ e.weight <= 10

\* the edges after add_edges: those that survive the node removals, with
\* the weight of the last accepted add for their pair
EdgesAfterAdd(j, body) ==
    LET good == {i \in 1..Len(body.add_edges) : GoodAdd(j, body, i)}
        last == {i \in good : \A k \in good : Pair(body.add_edges[k]) = Pair(body.add_edges[i]) => k <= i}
        kept == {e \in Range(j.edges) : e.source \notin RemovedIds(body)
                                        /\ e.target \notin RemovedIds(body)}
    IN {e \in kept : \A i \in good : Pair(body.add_edges[i]) # Pair(e)}
       \cup {body.add_edges[i] : i \in last}

ExpectedEdges(j, body) ==
    {e \in EdgesAfterAdd(j, body) :
        \A i \in 1..Len(body.remove_edges) : Pair(body.remove_edges[i]) # Pair(e)}

ExpectedPairs(j, body) == {Pair(e) : e \in ExpectedEdges(j, body)}

\* the entries of each list that are meant to fail
FailingAddNodes(j, body) ==
    {i \in 1..Len(body.add_nodes) :
        \/ body.add_nodes[i].id \in JsonIds(j)
        \/ \E k \in 1..(i - 1) : body.add_nodes[k].id = body.add_nodes[i].id}

FailingRemoveNodes(j, body) ==
    {i \in 1..Len(body.remove_nodes) :
        \/ body.remove_nodes[i] \notin JsonIds(j) \cup AddedIds(body)
        \/ \E k \in 1..(i - 1) : body.remove_nodes[k] = body.remove_nodes[i]}

FailingAddEdges(j, body) == {i \in 1..Len(body.add_edges) : ~GoodAdd(j, body, i)}

FailingRemoveEdges(j, body) ==
    {i \in 1..Len(body.remove_edges) :
        \/ \A e \in EdgesAfterAdd(j, body) : Pair(e) # Pair(body.remove_edges[i])
        \/ \E k \in 1..(i - 1) : Pair(body.remove_edges[k]) = Pair(body.remove_edges[i])}

FailCount(j, body) ==
    Cardinality(FailingAddNodes(j, body)) + Cardinality(FailingRemoveNodes(j, body))
    + Cardinality(FailingAddEdges(j, body)) + Cardinality(FailingRemoveEdges(j, body))

ErrorsOf(errors, field) == Cardinality({i \in 1..Len(errors) : errors[i].field = field})

OpCount(body) ==
    Len(body.add_nodes) + Len(body.remove_nodes) + Len(body.add_edges) + Len(body.remove_edges)

\* the sessions whose handler has run apply_patch
Applied == {s \in Sessions : sess[s].pc # "idle"}
Input(s) == sess[s].graph_row.graph_json
ScenarioGraph == [nodes |-> <<NodeJson("A"), NodeJson("B")>>, edges |-> <<EdgeJson("A", "B", 5)>>]

(***************************************************************************)
(* C1: apply_patch has two outcomes.  Accept: no error, is_dag true, the   *)
(* returned graph is acyclic and is the input graph with every operation   *)
(* of the four lists applied.  Reject: errors, is_dag false, the returned  *)
(* graph is the input graph itself.  Never a partly applied graph.         *)
(***************************************************************************)
C1_Accept(s) ==
    LET r == sess[s].result IN
    /\ r.errors = <<>>
    /\ r.is_dag
    /\ Acyclic(JsonIds(r.graph), JsonPairs(r.graph))
    /\ Range(r.graph.nodes) = ExpectedNodes(Input(s), sess[s].body)
    /\ Len(r.graph.nodes) = Cardinality(JsonIds(r.graph))
    /\ Range(r.graph.edges) = ExpectedEdges(Input(s), sess[s].body)
    /\ Len(r.graph.edges) = Cardinality(JsonPairs(r.graph))

C1_Reject(s) ==
    LET r == sess[s].result IN
    /\ r.errors # <<>>
    /\ ~r.is_dag
    /\ r.graph = Input(s)

C1_TwoOutcomes == \A s \in Applied : C1_Accept(s) \/ C1_Reject(s)

\* a rejected patch one of whose operations did change the working graph
C1_Witness ==
    \E s \in Applied :
        /\ C1_Reject(s)
        /\ Len(sess[s].body.add_nodes) = 1
        /\ FailingAddNodes(Input(s), sess[s].body) = {}
        /\ Len(sess[s].body.remove_edges) = 1

(***************************************************************************)
(* C2: starting from a valid DAG, after any sequence of PATCH requests the *)
(* latest stored graph is acyclic, every edge's source and target are      *)
(* nodes of it, and every edge weight is in [0,1].                         *)
(***************************************************************************)
ValidDag(j) ==
    /\ Acyclic(JsonIds(j), JsonPairs(j))
    /\ \A e \in Range(j.edges) : e.source \in JsonIds(j) /\ e.target \in JsonIds(j)
    /\ \A e \in Range(j.edges) : e.weight >= 0 /\ e.weight <= 10

C2_LatestIsValidDag == \A row \in LatestRows(snapshots) : ValidDag(row.graph_json)

\* the second accepted patch is stored, and the latest graph has edges that
\* the first stored graph did not have
C2_Witness ==
    /\ Len(snapshots) = 3
    /\ sess[1].pc = "committed"
    /\ sess[1].response.status = "success"
    /\ \E row \in LatestRows(snapshots) :
          JsonPairs(row.graph_json) \ JsonPairs(snapshots[1].graph_json) # {}

(***************************************************************************)
(* C3: when every operation succeeds structurally and the patched graph    *)
(* has a cycle (a self-loop included), the patch is rejected: the original *)
(* graph is returned, is_dag is false, cycle_path is a real cycle of the   *)
(* patched graph (first = last, consecutive pairs are its edges) and no    *)
(* new version is stored.  For A->B plus B->A it is [A,B,A] or [B,A,B].    *)
(***************************************************************************)
ClosesCycle(s) ==
    /\ FailCount(Input(s), sess[s].body) = 0
    /\ ~Acyclic(IdsAfterNodes(Input(s), sess[s].body), ExpectedPairs(Input(s), sess[s].body))

C3_CycleRejected ==
    \A s \in Applied : ClosesCycle(s) =>
        LET r == sess[s].result IN
        /\ r.graph = Input(s)
        /\ ~r.is_dag
        /\ r.cycle_path # None
        /\ IsCycleOf(r.cycle_path.val, ExpectedPairs(Input(s), sess[s].body))
        /\ sess[s].response = [status |-> "error", is_dag |-> FALSE, cycle_path |-> r.cycle_path]
        /\ sess[s].pending = <<>>
        /\ sess[s].pc = "committed" =>
               \A i \in 1..Len(snapshots) : snapshots[i].version <= sess[s].graph_row.version
        /\ (Input(s) = ScenarioGraph /\ OpCount(sess[s].body) = 1
            /\ JsonPairs([nodes |-> <<>>, edges |-> sess[s].body.add_edges]) = {<<"B", "A">>})
           => r.cycle_path.val \in {<<"A", "B", "A">>, <<"B", "A", "B">>}

\* the scenario: A->B, the patch adds B->A, the request is over
C3_Witness ==
    \E s \in Applied :
        /\ ClosesCycle(s)
        /\ Input(s) = ScenarioGraph
        /\ OpCount(sess[s].body) = 1
        /\ JsonPairs([nodes |-> <<>>, edges |-> sess[s].body.add_edges]) = {<<"B", "A">>}
        /\ sess[s].pc = "committed"
        /\ sess[s].result.cycle_path = Some(<<"A", "B", "A">>)

(***************************************************************************)
(* C4: apply_patch does not stop at the first failing operation: every     *)
(* entry of the four lists is processed, each failing one gives one error  *)
(* (add an existing node, remove a missing node, add an edge with a        *)
(* missing endpoint or a weight outside [0,1], remove a missing edge), and *)
(* with at least one error the original graph is returned, is_dag false,   *)
(* no cycle path.                                                          *)
(***************************************************************************)
C4_ErrorsCollected ==
    \A s \in Applied :
        LET r == sess[s].result
            j == Input(s)
            b == sess[s].body
        IN /\ ErrorsOf(r.errors, "add_nodes") = Cardinality(FailingAddNodes(j, b))
           /\ ErrorsOf(r.errors, "remove_nodes") = Cardinality(FailingRemoveNodes(j, b))
           /\ ErrorsOf(r.errors, "add_edges") = Cardinality(FailingAddEdges(j, b))
           /\ ErrorsOf(r.errors, "remove_edges") = Cardinality(FailingRemoveEdges(j, b))
           /\ FailCount(j, b) >= 1 =>
                 /\ Len(r.errors) = FailCount(j, b)
                 /\ r.graph = j
                 /\ ~r.is_dag
                 /\ r.cycle_path = None

\* a first list entry fails and a later list's entry fails too
C4_Witness ==
    \E s \in Applied :
        /\ Len(sess[s].result.errors) = 2
        /\ sess[s].result.errors[1].field = "add_nodes"
        /\ sess[s].result.errors[2].field = "remove_edges"

(***************************************************************************)
(* C5: PATCH requests processed one after another: every accepted patch    *)
(* (one with no operations too) stores a snapshot whose version is the     *)
(* previous latest version plus 1, every rejected patch stores nothing,    *)
(* and the latest version is the initial version plus the number of        *)
(* accepted patches.                                                       *)
(***************************************************************************)
C5_VersionPlusOne ==
    /\ Len(snapshots) = 1 + nAccepted
    /\ \A i \in 1..Len(snapshots) : snapshots[i].version = InitialVersion + i - 1
    /\ MaxVersion(snapshots) = InitialVersion + nAccepted
    /\ \A s \in Sessions : sess[s].pc = "committed" =>
          IF sess[s].result.errors = <<>>
          THEN /\ sess[s].response.status = "success"
               /\ snapshots[Len(snapshots)] = [version |-> sess[s].graph_row.version + 1,
                                               graph_json |-> sess[s].result.graph]
               /\ Len(snapshots) >= 2
               /\ snapshots[Len(snapshots) - 1] = sess[s].graph_row
          ELSE /\ sess[s].response.status = "error"
               /\ snapshots[Len(snapshots)] = sess[s].graph_row

\* the second accepted patch has no operations
C5_Witness ==
    /\ sess[1].pc = "committed"
    /\ sess[1].body = EmptyBody
    /\ sess[1].response.status = "success"
    /\ nAccepted = 2
    /\ MaxVersion(snapshots) = 3

(***************************************************************************)
(* C6: two PATCH requests on one exam interleave (each reads the latest    *)
(* snapshot before the other commits) and both are accepted: the stored    *)
(* snapshots still have pairwise distinct versions, the version goes up by *)
(* one per accepted patch, and the latest snapshot holds the effects of    *)
(* both patches.                                                           *)
(***************************************************************************)
BothCommitted(s, t) ==
    /\ s # t
    /\ sess[s].pc = "committed" /\ sess[t].pc = "committed"
    /\ sess[s].response.status = "success" /\ sess[t].response.status = "success"
    /\ sess[s].graph_row = sess[t].graph_row

C6_NoLostUpdate ==
    /\ \A i, k \in 1..Len(snapshots) : i # k => snapshots[i].version # snapshots[k].version
    /\ (\A s \in Sessions : sess[s].pc # "returned") =>
           MaxVersion(snapshots) = InitialVersion + nAccepted
    /\ \A s, t \in Sessions : BothCommitted(s, t) =>
           \A row \in LatestRows(snapshots) :
               /\ JsonIds(row.graph_json) =
                      IdsAfterNodes(sess[s].result.graph, sess[t].body)
               /\ JsonPairs(row.graph_json) =
                      ExpectedPairs(sess[s].result.graph, sess[t].body)

(***************************************************************************)
(* C7: the four lists take effect in the order add_nodes, remove_nodes,    *)
(* add_edges, remove_edges, each on the result of the one before: an edge  *)
(* to a node added by the same patch is accepted, an edge to a node        *)
(* removed by the same patch is an error, a new node both added and        *)
(* removed ends absent without error, an edge both added and removed ends  *)
(* absent without error.                                                   *)
(***************************************************************************)
NewIds(s) == AddedIds(sess[s].body) \ JsonIds(Input(s))

C7_FixedOrder ==
    \A s \in Applied :
        LET r == sess[s].result
            j == Input(s)
            b == sess[s].body
        IN \* an edge to a node the patch adds: no error for it, and it is in
           \* the result unless it closes a cycle
           /\ \A i \in 1..Len(b.add_edges) :
                 (/\ {b.add_edges[i].source, b.add_edges[i].target} \cap NewIds(s) # {}
                  /\ {b.add_edges[i].source, b.add_edges[i].target}
                         \subseteq (JsonIds(j) \cup NewIds(s))
                  /\ b.add_edges[i].weight \in 0..10
                  /\ OpCount(b) = Cardinality(NewIds(s)) + 1)
                 => /\ \A k \in 1..Len(r.errors) : r.errors[k].field = ""
                    /\ r.cycle_path = None => /\ r.errors = <<>>
                                              /\ b.add_edges[i] \in Range(r.graph.edges)
           \* an edge to a node the patch removes
           /\ \A i \in 1..Len(b.add_edges) :
                 {b.add_edges[i].source, b.add_edges[i].target} \cap RemovedIds(b) # {}
                 => /\ ErrorsOf(r.errors, "add_edges") >= 1
                    /\ r.graph = j
           \* a new node, added and removed
           /\ (/\ Len(b.add_nodes) = 1 /\ NewIds(s) # {}
               /\ b.remove_nodes = <<b.add_nodes[1].id>>
               /\ OpCount(b) = 2)
              => /\ r.errors = <<>>
                 /\ JsonIds(r.graph) = JsonIds(j)
           \* an edge, added and removed
           /\ (/\ Len(b.add_edges) = 1 /\ Len(b.remove_edges) = 1
               /\ Pair(b.add_edges[1]) = Pair(b.remove_edges[1])
               /\ {b.add_edges[1].source, b.add_edges[1].target} \subseteq JsonIds(j)
               /\ b.add_edges[1].weight \in 0..10
               /\ OpCount(b) = 2)
              => /\ r.errors = <<>>
                 /\ Pair(b.add_edges[1]) \notin JsonPairs(r.graph)
                 /\ JsonPairs(r.graph) = JsonPairs(j) \ {Pair(b.add_edges[1])}

\* node C is added and the edge A -> C of the same patch is stored
C7_Witness ==
    \E s \in Applied :
        /\ sess[s].pc = "committed"
        /\ NewIds(s) = {"C"}
        /\ Len(sess[s].body.add_edges) = 1
        /\ Pair(sess[s].body.add_edges[1]) = <<"A", "C">>
        /\ sess[s].result.errors = <<>>
        /\ <<"A", "C">> \in JsonPairs(snapshots[Len(snapshots)].graph_json)

(***************************************************************************)
(* C8: a patch whose only operations are remove_nodes of existing nodes    *)
(* (each entry a node of the graph when its turn comes) is accepted; no    *)
(* edge of the result has a removed node as source or target, and the      *)
(* edges that went with the nodes give no error.                           *)
(***************************************************************************)
OnlyRemovesExisting(s) ==
    LET b == sess[s].body IN
    /\ Len(b.remove_nodes) >= 1
    /\ OpCount(b) = Len(b.remove_nodes)
    /\ RemovedIds(b) \subseteq JsonIds(Input(s))
    /\ Cardinality(RemovedIds(b)) = Len(b.remove_nodes)

C8_RemoveNodeTakesEdges ==
    \A s \in Applied : OnlyRemovesExisting(s) =>
        LET r == sess[s].result IN
        /\ r.errors = <<>>
        /\ r.is_dag
        /\ sess[s].response.status = "success"
        /\ JsonIds(r.graph) = JsonIds(Input(s)) \ RemovedIds(sess[s].body)
        /\ \A e \in Range(r.graph.edges) :
              e.source \notin RemovedIds(sess[s].body) /\ e.target \notin RemovedIds(sess[s].body)
        /\ Range(r.graph.edges) =
              {e \in Range(Input(s).edges) : e.source \notin RemovedIds(sess[s].body)
                                             /\ e.target \notin RemovedIds(sess[s].body)}

\* B is removed from A -> B -> C: both of its edges go, the patch is stored
C8_Witness ==
    \E s \in Applied :
        /\ OnlyRemovesExisting(s)
        /\ sess[s].pc = "committed"
        /\ sess[s].body.remove_nodes = <<"B">>
        /\ JsonPairs(Input(s)) = {<<"A", "B">>, <<"B", "C">>}
        /\ snapshots[Len(snapshots)].graph_json.edges = <<>>

(***************************************************************************)
(* C9: validate_graph checks referential integrity and weight range, then  *)
(* acyclicity.  With an undefined source, an undefined target or a weight  *)
(* outside [0,1] on any edge: ok is false, there is one error for every    *)
(* such violation over all edges, and cycle_path is null even if the graph *)
(* has a cycle.  A cycle path comes only with no structural error; ok is   *)
(* true exactly when there is no structural error and no cycle.            *)
(***************************************************************************)
Violations(x) ==
    {<<i - 1, "source">> : i \in {k \in 1..Len(x.edges) : x.edges[k].source \notin JsonIds(x)}}
    \cup {<<i - 1, "target">> : i \in {k \in 1..Len(x.edges) : x.edges[k].target \notin JsonIds(x)}}
    \cup {<<i - 1, "weight">> : i \in {k \in 1..Len(x.edges) :
                "weight" \in DOMAIN x.edges[k] /\ x.edges[k].weight \notin 0..10}}

EndpointIds(x) == UNION {{x.edges[i].source, x.edges[i].target} : i \in 1..Len(x.edges)}

HasCycle(x) == ~Acyclic(JsonIds(x) \cup EndpointIds(x), JsonPairs(x))

C9_ValidateOrder ==
    call.op = "validate_graph" =>
        LET r == call.result
            x == call.arg
        IN /\ Violations(x) # {} =>
                 /\ ~r.ok
                 /\ Len(r.errors) = Cardinality(Violations(x))
                 /\ {<<r.errors[i].row, r.errors[i].field>> : i \in 1..Len(r.errors)}
                        = Violations(x)
                 /\ r.cycle_path = None
           /\ r.cycle_path # None =>
                 /\ Violations(x) = {}
                 /\ ~r.ok
                 /\ IsCycleOf(r.cycle_path.val, JsonPairs(x))
           /\ (Violations(x) = {} /\ HasCycle(x)) => r.cycle_path # None
           /\ r.ok <=> (Violations(x) = {} /\ ~HasCycle(x))
           /\ r.ok => r.errors = <<>>

\* both edges of the cycle A -> B -> A carry a bad weight: two errors, no path
C9_Witness ==
    /\ call.op = "validate_graph"
    /\ JsonIds(call.arg) = {"A", "B"}
    /\ JsonPairs(call.arg) = {<<"A", "B">>, <<"B", "A">>}
    /\ Violations(call.arg) = {<<0, "weight">>, <<1, "weight">>}
    /\ ~call.result.ok
    /\ call.result.cycle_path = None

(***************************************************************************)
(* C10: build_graph fails with a schema error, and returns no graph, when  *)
(* an input edge references a node id that is not in the node list or has  *)
(* a weight outside [0,1].                                                 *)
(***************************************************************************)
SchemaError == [error |-> "SchemaError"]

BadEdges(x) == Violations(x) # {}

C10_BuildFails ==
    (call.op = "build_graph" /\ BadEdges(call.arg)) => call.result = SchemaError

(***************************************************************************)
(* C10 as the code has it: build_graph never fails on such an input.  It   *)
(* returns a graph whose nodes are the listed nodes and every endpoint of  *)
(* an edge, an endpoint that was not listed being a node without a label,  *)
(* and whose edges are the input's ordered pairs, each with the weight the *)
(* input gave it last, in range or not.                                    *)
(***************************************************************************)
LastWeight(x, p) ==
    LET last == CHOOSE i \in 1..Len(x.edges) :
                    /\ Pair(x.edges[i]) = p
                    /\ \A k \in 1..Len(x.edges) : Pair(x.edges[k]) = p => k <= i
    IN IF "weight" \in DOMAIN x.edges[last] THEN x.edges[last].weight ELSE 5

C10_BuildNeverFails ==
    (call.op = "build_graph" /\ BadEdges(call.arg)) =>
        LET G == call.result
            x == call.arg
        IN /\ G # SchemaError
           /\ NodeIds(G) = JsonIds(x) \cup EndpointIds(x)
           /\ Len(G.nodes) = Cardinality(NodeIds(G))
           /\ \A i \in 1..Len(G.nodes) :
                 G.nodes[i].label = NoLabel <=> G.nodes[i].id \notin JsonIds(x)
           /\ Range(G.edges) =
                 {[source |-> p[1], target |-> p[2], weight |-> LastWeight(x, p)]
                     : p \in JsonPairs(x)}
           /\ Len(G.edges) = Cardinality(JsonPairs(x))

\* an edge from a node that is not listed, with weight 1.1, is built
C10_Witness ==
    /\ call.op = "build_graph"
    /\ JsonIds(call.arg) = {"A"}
    /\ call.arg.edges = <<[source |-> "B", target |-> "A", weight |-> 11]>>
    /\ NodeIds(call.result) = {"A", "B"}

(***************************************************************************)
(* services/compute_service.py.  A matrix of the code, indexed there by    *)
(* the positions of a student and of a concept, is a function of the       *)
(* student id and the concept id; a NaN entry is None.  The explanation    *)
(* trace of a record is left out.                                          *)
(***************************************************************************)
\* np.where(np.isnan(x), 0.0, x)
NanToZero(x) == IF x.some THEN x.val ELSE Zero

\* the value a dict gives for a key, or the default
Get(dict, key, default) == IF key \in DOMAIN dict THEN dict[key] ELSE default

DefaultMaxScore == One

\* score / max_score of one question, 0 when the max score is not positive
Normalized(student_scores, max_scores, q_id) ==
    LET ms == Get(max_scores, q_id, DefaultMaxScore)
    IN IF RLt(Zero, ms) THEN RDiv(student_scores[q_id], ms) ELSE Zero

\* mutant: a tagged question the student did not attempt counts with score 0
DirectOfUnattemptedAsZero(student_scores, max_scores, tagged_questions) ==
    LET weight_sum == RSum([i \in 1..Len(tagged_questions) |-> tagged_questions[i].w])
        weighted_sum == RSum([i \in 1..Len(tagged_questions) |->
                          IF tagged_questions[i].q \in DOMAIN student_scores
                          THEN RMul(tagged_questions[i].w,
                                    Normalized(student_scores, max_scores, tagged_questions[i].q))
                          ELSE Zero])
    IN IF RLt(Zero, weight_sum) THEN Some(RDiv(weighted_sum, weight_sum)) ELSE None

\* the entry of the direct readiness matrix for one student and the tagged
\* questions of one concept
DirectOf(student_scores, max_scores, tagged_questions) ==
    LET attempted == SelectSeq(tagged_questions, LAMBDA t : t.q \in DOMAIN student_scores)
        weighted_sum == RSum([i \in 1..Len(attempted) |->
                          RMul(attempted[i].w,
                               Normalized(student_scores, max_scores, attempted[i].q))])
        weight_sum == RSum([i \in 1..Len(attempted) |-> attempted[i].w])
    IN IF RLt(Zero, weight_sum) THEN Some(RDiv(weighted_sum, weight_sum)) ELSE None

compute_direct_readiness(scores, max_scores, question_concept_map, concepts, students) ==
    [s \in Range(students) |->
        [c \in Range(concepts) |->
            DirectOf(Get(scores, s, <<>>), max_scores, Get(question_concept_map, c, <<>>))]]

\* adjacency[u][v]: the weight of the edge u -> v, 0 where there is none
Adjacency(G, concepts) ==
    [u \in Range(concepts) |->
        [v \in Range(concepts) |->
            IF HasEdge(G, u, v)
            THEN Tenths((CHOOSE e \in Range(G.edges) : e.source = u /\ e.target = v).weight)
            ELSE Zero]]

\* mutant: the penalty of a concept is divided by the number of its parents
ParentLoopNormalised(direct, adjacency, parents, c, threshold) ==
    LET ps == SelectSeq(parents, LAMBDA p : RLt(Zero, adjacency[p][c]))
        total == RSum([i \in 1..Len(ps) |->
                     RMul(adjacency[ps[i]][c],
                          RMax(Zero, RSub(threshold, NanToZero(direct[ps[i]]))))])
    IN IF ps = <<>> THEN Zero ELSE RDiv(total, Int2Rat(Len(ps)))

\* the inner loop of the penalty stage: what the parents of c add to its
\* penalty, for one student
RECURSIVE ParentSteps(_, _, _, _, _, _)
ParentSteps(penalty, direct, adjacency, parents, c, threshold) ==
    IF parents = <<>> \/ ~Evaluated(penalty) THEN penalty
    ELSE LET edge_weight == adjacency[Head(parents)][c]
             gap == RMax(Zero, RSub(threshold, NanToZero(direct[Head(parents)])))
         IN ParentSteps(IF RLt(Zero, edge_weight)
                        THEN RAdd(penalty, RMul(edge_weight, gap)) ELSE penalty,
                        direct, adjacency, Tail(parents), c, threshold)
ParentLoop(direct, adjacency, parents, c, threshold) ==
    ParentSteps(Zero, direct, adjacency, parents, c, threshold)

\* the outer loop of the penalty stage, over the topological order
RECURSIVE PenaltyLoop(_, _, _, _, _, _)
PenaltyLoop(penalty, direct, adjacency, concepts, order, threshold) ==
    IF order = <<>> \/ ~Evaluated(penalty) THEN penalty
    ELSE LET c == Head(order)
         IN PenaltyLoop([penalty EXCEPT ![c] =
                            RAdd(@, ParentLoop(direct, adjacency, concepts, c, threshold))],
                        direct, adjacency, concepts, Tail(order), threshold)

compute_prerequisite_penalty(direct_readiness, adjacency, concepts, topo_order, threshold) ==
    [s \in DOMAIN direct_readiness |->
        PenaltyLoop([c \in Range(concepts) |-> Zero], direct_readiness[s], adjacency,
                    concepts, topo_order, threshold)]

\* validation_weight = edge_weight * 0.4, and the cap of the boost
ValidationFactor == Rat(4, 10)
BoostCap == Rat(2, 10)

\* the inner loop of the boost stage: what the children of parent add to
\* its boost, for one student
RECURSIVE ChildSteps(_, _, _, _, _)
ChildSteps(boost, direct, adjacency, parent, children) ==
    IF children = <<>> \/ ~Evaluated(boost) THEN boost
    ELSE LET edge_weight == adjacency[parent][Head(children)]
             validation_weight == RMul(edge_weight, ValidationFactor)
         IN ChildSteps(IF RLt(Zero, edge_weight)
                       THEN RAdd(boost, RMul(validation_weight,
                                             NanToZero(direct[Head(children)])))
                       ELSE boost,
                       direct, adjacency, parent, Tail(children))
ChildLoop(direct, adjacency, parent, children) ==
    ChildSteps(Zero, direct, adjacency, parent, children)

\* mutant: the boost is not capped
compute_downstream_boost_uncapped(direct_readiness, adjacency, concepts) ==
    [s \in DOMAIN direct_readiness |->
        [p \in Range(concepts) |-> ChildLoop(direct_readiness[s], adjacency, p, concepts)]]

compute_downstream_boost(direct_readiness, adjacency, concepts) ==
    [s \in DOMAIN direct_readiness |->
        [p \in Range(concepts) |->
            RMin(ChildLoop(direct_readiness[s], adjacency, p, concepts), BoostCap)]]

\* mutant: np.clip left out
ClipSkipped(x, lo, hi) == x

\* np.clip(x, lo, hi)
Clip(x, lo, hi) == RMin(RMax(x, lo), hi)

compute_final_readiness(direct_readiness, penalty, boost, alpha, beta, gamma) ==
    [s \in DOMAIN direct_readiness |->
        [c \in DOMAIN direct_readiness[s] |->
            LET direct == NanToZero(direct_readiness[s][c])
                final == RAdd(RSub(RMul(alpha, direct), RMul(beta, penalty[s][c])),
                              RMul(gamma, boost[s][c]))
            IN Clip(final, Zero, One)]]
\* the sum of f[x] over the elements x of S
RECURSIVE RSumOver(_, _)
RSumOver(f, S) ==
    IF S = {} THEN Zero
    ELSE LET x == CHOOSE y \in S : TRUE IN RAdd(f[x], RSumOver(f, S \ {x}))

\* np.mean and np.var (population variance) of a non-empty sequence
Mean(xs) == RDiv(RSum(xs), Int2Rat(Len(xs)))
Var(xs) ==
    LET m == Mean(xs)
    IN Mean([i \in 1..Len(xs) |-> RMul(RSub(xs[i], m), RSub(xs[i], m))])

\* the thresholds of the three confidence factors
HighTagged == 3
MediumTagged == 2
HighPoints == 10
MediumPoints == 5
HighVariance == Rat(15, 100)
MediumVariance == Rat(30, 100)

levels == [high |-> 3, medium |-> 2, low |-> 1]
reverse == <<"low", "medium", "high">>

\* factor 1: the number of tagged questions
Factor1(num_tagged) ==
    IF num_tagged >= HighTagged THEN "high"
    ELSE IF num_tagged = MediumTagged THEN "medium" ELSE "low"

\* factor 2: the total points of the tagged questions
Factor2(total_points) ==
    IF RLe(Int2Rat(HighPoints), total_points) THEN "high"
    ELSE IF RLe(Int2Rat(MediumPoints), total_points) THEN "medium" ELSE "low"

\* factor 3: the variance across the related concepts
Factor3(variance) ==
    IF RLt(variance, HighVariance) THEN "high"
    ELSE IF RLe(variance, MediumVariance) THEN "medium" ELSE "low"

\* the concepts with an adjacency entry > 0 to or from the concept
neighbors(concept, concepts, adjacency) ==
    SelectSeq(concepts, LAMBDA c : \/ RLt(Zero, adjacency[concept][c])
                                   \/ RLt(Zero, adjacency[c][concept]))

\* the students with a direct readiness for the concept, and their mean
ValidStudents(direct_readiness, c) ==
    {s \in DOMAIN direct_readiness : direct_readiness[s][c].some}
MeanOfValid(direct_readiness, c) ==
    LET valid == ValidStudents(direct_readiness, c)
    IN RDiv(RSumOver([s \in valid |-> direct_readiness[s][c].val], valid),
            Int2Rat(Cardinality(valid)))

\* the variance of factor 3
RelatedVariance(concept, direct_readiness, concepts, adjacency) ==
    LET nb == neighbors(concept, concepts, adjacency)
        related == SelectSeq(<<concept>> \o nb,
                             LAMBDA c : ValidStudents(direct_readiness, c) # {})
        means == [i \in 1..Len(related) |-> MeanOfValid(direct_readiness, related[i])]
    IN IF nb # <<>> /\ Len(means) > 1 THEN Var(means) ELSE Zero

Min3(a, b, c) == IF a <= b /\ a <= c THEN a ELSE IF b <= c THEN b ELSE c

compute_confidence(concept, question_concept_map, max_scores, direct_readiness, concepts, adjacency) ==
    LET tagged == Get(question_concept_map, concept, <<>>)
        f1 == Factor1(Len(tagged))
        total_points == RSum([i \in 1..Len(tagged) |->
                                 Get(max_scores, tagged[i].q, DefaultMaxScore)])
        f2 == Factor2(total_points)
        f3 == Factor3(RelatedVariance(concept, direct_readiness, concepts, adjacency))
    IN reverse[Min3(levels[f1], levels[f2], levels[f3])]

\* a sequence of fractions in ascending order (np.median sorts its input)
RECURSIVE Insert(_, _)
Insert(x, sorted) ==
    IF sorted = <<>> THEN <<x>>
    ELSE IF RLe(x, Head(sorted)) THEN <<x>> \o sorted
    ELSE <<Head(sorted)>> \o Insert(x, Tail(sorted))

RECURSIVE Sorted(_)
Sorted(xs) == IF xs = <<>> THEN <<>> ELSE Insert(Head(xs), Sorted(Tail(xs)))

Median(xs) ==
    LET srt == Sorted(xs)
        n == Len(xs)
    IN IF n % 2 = 1 THEN srt[(n + 1) \div 2]
       ELSE RDiv(RAdd(srt[n \div 2], srt[n \div 2 + 1]), Int2Rat(2))

\* one aggregate per concept; the standard deviation is kept as its square
compute_class_aggregates(final_readiness, concepts, students, threshold) ==
    [i \in 1..Len(concepts) |->
        LET vals == [k \in 1..Len(students) |-> final_readiness[students[k]][concepts[i]]]
        IN [concept_id |-> concepts[i],
            mean_readiness |-> Mean(vals),
            median_readiness |-> Median(vals),
            std_readiness_squared |-> Var(vals),
            below_threshold_count |->
                Cardinality({k \in 1..Len(vals) : RLt(vals[k], threshold)})]]
\* mutant: the order is returned from the last node to the first
get_topological_order_reversed(G) ==
    LET r == topological_sort(G)
    IN IF r.unfeasible THEN [raised |-> TRUE, order |-> <<>>]
       ELSE [raised |-> FALSE,
             order |-> [i \in 1..Len(r.order) |-> r.order[Len(r.order) + 1 - i]]]

\* list(nx.topological_sort(G)): the order, or NetworkXUnfeasible raised
get_topological_order(G) ==
    LET r == topological_sort(G)
    IN IF r.unfeasible THEN [raised |-> TRUE, order |-> <<>>]
       ELSE [raised |-> FALSE, order |-> r.order]

\* the student ids of the model in ascending order
StudentIds == <<"s1", "s2">>

\* mutant: every student id of the model is processed
SortedIdsAll(keys) == StudentIds

\* sorted(keys)
SortedIds(keys) == SelectSeq(StudentIds, LAMBDA s : s \in keys)

\* list(G.nodes)
NodeList(G) == [i \in 1..Len(G.nodes) |-> G.nodes[i].id]

\* mutant: a record without direct readiness carries 0
dr_val_zero(dr) == Some(NanToZero(dr))

\* float(dr) if not np.isnan(dr) else None
dr_val(dr) == IF dr.some THEN Some(dr.val) ELSE None

\* the record of one (student, concept)
ReadinessRecord(student, concept, direct_readiness, penalty, boost, final, conf) ==
    [student_id |-> student,
     concept_id |-> concept,
     direct_readiness |-> dr_val(direct_readiness[student][concept]),
     prerequisite_penalty |-> penalty[student][concept],
     downstream_boost |-> boost[student][concept],
     final_readiness |-> final[student][concept],
     confidence |-> conf]

NoPipelineResult ==
    [raised |-> TRUE, readiness_results |-> <<>>, class_aggregates |-> <<>>,
     concepts |-> <<>>, students |-> <<>>, final_readiness_matrix |-> <<>>]

\* "Confidence + explanation traces", "Class aggregates" and the result
PipelineResult(question_concept_map, max_scores, concepts, students, adjacency, direct_readiness, penalty, boost, final, threshold) ==
    After(final,
    [raised |-> FALSE,
     readiness_results |->
        [k \in 1..(Len(students) * Len(concepts)) |->
            ReadinessRecord(students[((k - 1) \div Len(concepts)) + 1],
                            concepts[((k - 1) % Len(concepts)) + 1],
                            direct_readiness, penalty, boost, final,
                            compute_confidence(concepts[((k - 1) % Len(concepts)) + 1],
                                               question_concept_map, max_scores,
                                               direct_readiness, concepts, adjacency))],
     class_aggregates |-> compute_class_aggregates(final, concepts, students, threshold),
     concepts |-> concepts,
     students |-> students,
     final_readiness_matrix |-> final])

\* "Stage 4: Final Readiness"
Stage4(question_concept_map, max_scores, concepts, students, adjacency, direct_readiness, penalty, boost, alpha, beta, gamma, threshold) ==
    After(<<penalty, boost>>,
          PipelineResult(question_concept_map, max_scores, concepts, students, adjacency,
                         direct_readiness, penalty, boost,
                         compute_final_readiness(direct_readiness, penalty, boost,
                                                 alpha, beta, gamma),
                         threshold))

\* "Stage 2: Prerequisite Penalty" and "Stage 3: Downstream Boost"
Stage2(question_concept_map, max_scores, concepts, students, adjacency, topo_order, direct_readiness, alpha, beta, gamma, threshold) ==
    After(direct_readiness,
          Stage4(question_concept_map, max_scores, concepts, students, adjacency,
                 direct_readiness,
                 compute_prerequisite_penalty(direct_readiness, adjacency, concepts,
                                              topo_order, threshold),
                 compute_downstream_boost(direct_readiness, adjacency, concepts),
                 alpha, beta, gamma, threshold))

\* "Get topological order" (it can raise) and "Stage 1: Direct Readiness"
Stage1(scores, max_scores, question_concept_map, concepts, students, adjacency, topo_order, alpha, beta, gamma, threshold) ==
    IF ~Evaluated(<<students, adjacency>>) \/ topo_order.raised THEN NoPipelineResult
    ELSE Stage2(question_concept_map, max_scores, concepts, students, adjacency,
                topo_order.order,
                compute_direct_readiness(scores, max_scores, question_concept_map,
                                         concepts, students),
                alpha, beta, gamma, threshold)

\* "Prepare data structures" and "Build adjacency matrix"
Prepare(scores, max_scores, question_concept_map, G, concepts, alpha, beta, gamma, threshold) ==
    Stage1(scores, max_scores, question_concept_map, concepts, SortedIds(DOMAIN scores),
           Adjacency(G, concepts), get_topological_order(G), alpha, beta, gamma, threshold)

run_readiness_pipeline(scores, max_scores, question_concept_map, graph_json, alpha, beta, gamma, threshold) ==
    LET G == build_graph(graph_json)
    IN After(G, Prepare(scores, max_scores, question_concept_map, G, NodeList(G),
                        alpha, beta, gamma, threshold))

(***************************************************************************)
(* services/cluster_service.py run_clustering.  KMeans is the library's:   *)
(* its labels are any labelling in which students with equal readiness     *)
(* vectors share a cluster and, when there are at least k distinct         *)
(* vectors, no cluster is empty; it raises ValueError on a matrix without  *)
(* columns.  np.argsort with its default kind is not stable: concepts of   *)
(* equal centroid value come in any order.                                 *)
(***************************************************************************)
DefaultK == 4

Min(a, b) == IF a <= b THEN a ELSE b

ClusterLabel(cluster_idx) == "Cluster " \o ToString(cluster_idx)

\* the mean of column c of the matrix over the students of a non-empty sequence
ColumnMean(matrix, members, c) == Mean([k \in 1..Len(members) |-> matrix[members[k]][c]])

\* top_n of the weak-concept lists
TopN == 3

\* np.argsort(centroid)[:top_n] as concepts: the first top_n concepts of an
\* ascending order of the centroid values
top_weak_concepts(centroid, concepts, top_n) ==
    {w \in [1..Min(top_n, Len(concepts)) -> Range(concepts)] :
        /\ \A i, j \in DOMAIN w : i < j => w[i] # w[j] /\ RLe(centroid[w[i]], centroid[w[j]])
        /\ \A c \in Range(concepts) \ Range(w) :
              \A i \in DOMAIN w : RLe(centroid[w[i]], centroid[c])}

Recommendation(concept) ==
    "Review session recommended for '" \o concept
        \o "' - consider targeted practice problems and office hours focus."

\* _suggest_interventions
suggest_interventions(weak_concepts) ==
    [i \in 1..Len(weak_concepts) |-> Recommendation(weak_concepts[i])]

\* final_readiness_matrix.mean(axis=0)
ColumnMeans(final_readiness_matrix, concepts, students) ==
    [c \in Range(concepts) |-> ColumnMean(final_readiness_matrix, students, c)]

\* the return of the branch actual_k < 2
SingleCluster(final_readiness_matrix, concepts, students, weak_concepts) ==
    [raised |-> FALSE,
     clusters |-> <<[cluster_label |-> ClusterLabel(0),
                     centroid |-> ColumnMeans(final_readiness_matrix, concepts, students),
                     student_count |-> Len(students),
                     top_weak_concepts |-> weak_concepts,
                     suggested_interventions |-> <<>>]>>,
     assignments |-> [s \in Range(students) |-> ClusterLabel(0)]]

KMeansLabels(final_readiness_matrix, students, k) ==
    {labels \in [Range(students) -> 0..(k - 1)] :
        /\ \A s, t \in Range(students) :
              final_readiness_matrix[s] = final_readiness_matrix[t] => labels[s] = labels[t]
        /\ Cardinality({final_readiness_matrix[s] : s \in Range(students)}) >= k
              => \A i \in 0..(k - 1) : \E s \in Range(students) : labels[s] = i}

\* the centre of a cluster: the mean of its members; the centre of a cluster
\* left empty stays on a data point
Centroid(final_readiness_matrix, concepts, students, cluster_students) ==
    [c \in Range(concepts) |->
        IF cluster_students = <<>>
        THEN final_readiness_matrix[Head(students)][c]
        ELSE ColumnMean(final_readiness_matrix, cluster_students, c)]

\* mutant: every student is counted in every cluster
ClusterStudentsAll(students, labels, cluster_idx) == students

\* the students of cluster cluster_idx and kmeans.cluster_centers_[cluster_idx]
ClusterStudents(students, labels, cluster_idx) ==
    SelectSeq(students, LAMBDA s : labels[s] = cluster_idx)
ClusterCentre(final_readiness_matrix, concepts, students, labels, cluster_idx) ==
    Centroid(final_readiness_matrix, concepts, students,
             ClusterStudents(students, labels, cluster_idx))

\* the weak-concept lists the clusters 0..k-1 can get
WeakConceptLists(final_readiness_matrix, concepts, students, k, labels) ==
    LET WeakOf(j) == top_weak_concepts(ClusterCentre(final_readiness_matrix, concepts,
                                                     students, labels, j - 1),
                                       concepts, TopN)
    IN {weak \in [1..k -> UNION {WeakOf(j) : j \in 1..k}] :
           \A j \in 1..k : weak[j] \in WeakOf(j)}

\* the return of the k-means branch
KMeansClusters(final_readiness_matrix, concepts, students, k, labels, weak) ==
    [raised |-> FALSE,
     clusters |-> [j \in 1..k |->
        [cluster_label |-> ClusterLabel(j - 1),
         centroid |-> ClusterCentre(final_readiness_matrix, concepts, students, labels, j - 1),
         student_count |-> Len(ClusterStudents(students, labels, j - 1)),
         top_weak_concepts |-> weak[j],
         suggested_interventions |-> suggest_interventions(weak[j])]],
     assignments |-> [s \in Range(students) |-> ClusterLabel(labels[s])]]

ClusteringRaised == [raised |-> TRUE, clusters |-> <<>>, assignments |-> <<>>]

\* the results run_clustering can return
run_clustering(final_readiness_matrix, concepts, students, k) ==
    LET actual_k == Min(k, Len(students))
    IN IF actual_k < 2
       THEN {SingleCluster(final_readiness_matrix, concepts, students, weak) :
                weak \in top_weak_concepts(ColumnMeans(final_readiness_matrix, concepts,
                                                       students),
                                           concepts, TopN)}
       ELSE IF concepts = <<>> THEN {ClusteringRaised}
       ELSE UNION {{KMeansClusters(final_readiness_matrix, concepts, students, actual_k,
                                   labels, weak) :
                       weak \in WeakConceptLists(final_readiness_matrix, concepts, students,
                                                 actual_k, labels)} :
                   labels \in KMeansLabels(final_readiness_matrix, students, actual_k)}

\* Cluster(cluster_label, centroid_json, student_count): what a stored
\* cluster keeps of a returned one
ClusterRow(cl) ==
    [cluster_label |-> cl.cluster_label, centroid |-> cl.centroid,
     student_count |-> cl.student_count]
ClusterRows(clusters) == [i \in 1..Len(clusters) |-> ClusterRow(clusters[i])]

(***************************************************************************)
(* routers/compute.py compute_readiness, and get_db around it.  exam holds *)
(* the rows of the exam; a stored row is [run, row], run being the request *)
(* that inserted it (it stands for the fresh uuid of the row).  run is the *)
(* request in progress: view is what its session has written when the      *)
(* handler ends, before is the stored state it started from, bundle what   *)
(* it computed, installed the bundle of the last run that committed.       *)
(***************************************************************************)
\* body.x if body.x != default else (params.x if params else default)
ResolveParams(body, params) ==
    [f \in {"alpha", "beta", "gamma", "threshold"} |->
        IF body[f] # DefaultBody[f] THEN body[f]
        ELSE IF params.some THEN params.val[f] ELSE DefaultBody[f]]

\* scores_dict: {student_id: {question_external_id: score}}
ScoresDict(score_rows) ==
    [sid \in {score_rows[i].student_id_external : i \in 1..Len(score_rows)} |->
        [qid \in {score_rows[i].question_id_external :
                     i \in {j \in 1..Len(score_rows) : score_rows[j].student_id_external = sid}} |->
            score_rows[CHOOSE i \in 1..Len(score_rows) :
                          /\ score_rows[i].student_id_external = sid
                          /\ score_rows[i].question_id_external = qid].score]]

\* max_scores_dict: the max score of every question that has a score row
MaxScoresDict(score_rows, max_score) ==
    [qid \in {score_rows[i].question_id_external : i \in 1..Len(score_rows)} |->
        max_score[qid]]

\* question_concept_map: {concept_id: [(question_external_id, weight), ...]}
ConceptMap(qcm_rows) ==
    [cid \in {qcm_rows[i].concept_id : i \in 1..Len(qcm_rows)} |->
        LET rows == SelectSeq(qcm_rows, LAMBDA r : r.concept_id = cid)
        IN [i \in 1..Len(rows) |-> [q |-> rows[i].question_id_external, w |-> rows[i].weight]]]

\* the orders in which a Python set can be iterated
Orders(S) == {f \in [1..Cardinality(S) -> S] : \A x \in S : \E i \in DOMAIN f : f[i] = x}

\* the graph JSON the run can load: that of a latest row, or, without any
\* row, one isolated node per key of the question-concept map
LoadedGraphs(rows, question_concept_map) ==
    IF rows = <<>>
    THEN {[nodes |-> [i \in DOMAIN order |-> [id |-> order[i], label |-> order[i]]],
           edges |-> <<>>] : order \in Orders(DOMAIN question_concept_map)}
    ELSE {r.graph_json : r \in LatestRows(rows)}

Rows(rows, n) == {[run |-> n, row |-> rows[i]] : i \in 1..Len(rows)}

\* mutant: the clusters and their assignments are not deleted
ClearOldResultsOnly(tables) ==
    [tables EXCEPT !.readiness_results = {}, !.class_aggregates = {}]

\* "Clear old results": the four deletes
ClearOld(tables) ==
    [tables EXCEPT !.readiness_results = {}, !.class_aggregates = {},
                   !.cluster_assignments = {}, !.clusters = {}]

\* "Persist readiness results" and "Persist class aggregates"
PersistResults(tables, pipeline_result, n) ==
    [tables EXCEPT !.readiness_results = @ \cup Rows(pipeline_result.readiness_results, n),
                   !.class_aggregates = @ \cup Rows(pipeline_result.class_aggregates, n)]

AssignmentRows(clustering_result, n) ==
    {[run |-> n,
      row |-> [student_id_external |-> s,
               cluster_id |-> [run |-> n, cluster_label |-> clustering_result.assignments[s]]]] :
        s \in DOMAIN clustering_result.assignments}

\* the clusters and, for each, the assignments of its students
PersistClusters(tables, clustering_result, n) ==
    [tables EXCEPT !.clusters = @ \cup Rows(ClusterRows(clustering_result.clusters), n),
                   !.cluster_assignments = @ \cup AssignmentRows(clustering_result, n)]

\* "Generate student tokens (if not already existing)"
PersistTokens(tables, students, n) ==
    [tables EXCEPT !.student_tokens = @ \cup
        {[run |-> n, row |-> [student_id_external |-> s]] :
            s \in {t \in Range(students) :
                      ~\E r \in tables.student_tokens : r.row.student_id_external = t}}]

\* what one run computes for the four tables it rewrites
NewBundle(pipeline_result, clustering_result, n) ==
    [n |-> n,
     readiness_results |-> Rows(pipeline_result.readiness_results, n),
     class_aggregates |-> Rows(pipeline_result.class_aggregates, n),
     clusters |-> Rows(ClusterRows(clustering_result.clusters), n),
     cluster_assignments |-> AssignmentRows(clustering_result, n)]
\* number of compute requests served in one behaviour
MaxRuns == 2

\* where an exception of the database or of the host can cut a request
\* short: at the flush after the deletes, in the clustering, at the last
\* flush
Faults == {"none", "clear", "clustering", "tokens"}

\* mutant: only the score rows are required
MissingInputScoresOnly(score_rows, qcm_rows) == score_rows = <<>>

\* "No scores found" / "No question-concept mapping found"
MissingInput(score_rows, qcm_rows) == score_rows = <<>> \/ qcm_rows = <<>>

\* the request when its handler has returned or raised
Ended(pc, n, body, fault, status, computed, view, bundle) ==
    [pc |-> pc, n |-> n, body |-> body, fault |-> fault, status |-> status,
     computed |-> computed,
     before |-> exam.stored, view |-> view, bundle |-> bundle,
     installed |-> run.installed]

\* the handler from "Clear old results" on
Persist(n, body, fault, pipeline_result, clustering_result) ==
    LET cleared == ClearOld(exam.stored)
        persisted == PersistResults(cleared, pipeline_result, n)
        clustered == PersistClusters(persisted, clustering_result, n)
        tokens == PersistTokens(clustered, pipeline_result.students, n)
    IN CASE fault = "clear" -> Ended("raised", n, body, fault, 500, TRUE, cleared, NoBundle)
         [] fault # "clear" /\ (fault = "clustering" \/ clustering_result.raised) ->
                Ended("raised", n, body, fault, 500, TRUE, persisted, NoBundle)
         [] fault = "tokens" /\ ~clustering_result.raised ->
                Ended("raised", n, body, fault, 500, TRUE, clustered, NoBundle)
         [] OTHER -> Ended("returned", n, body, fault, 200, TRUE, tokens,
                           NewBundle(pipeline_result, clustering_result, n))

\* "Run readiness pipeline" on the dicts built from the rows of the exam
RunPipeline(p, graph_json) ==
    run_readiness_pipeline(ScoresDict(exam.scores),
                           MaxScoresDict(exam.scores, exam.max_score),
                           ConceptMap(exam.qcm), graph_json,
                           p.alpha, p.beta, p.gamma, p.threshold)

\* the ways the handler can end once the pipeline has run
Outcomes(n, body, pipeline_result) ==
    IF pipeline_result.raised
    THEN {Ended("raised", n, body, "none", 500, TRUE, exam.stored, NoBundle)}
    ELSE {Persist(n, body, fault, pipeline_result, clustering_result) :
             fault \in Faults,
             clustering_result \in run_clustering(pipeline_result.final_readiness_matrix,
                                                  pipeline_result.concepts,
                                                  pipeline_result.students, DefaultK)}

\* POST /exams/{id}/compute: the handler, up to its return or its exception
ComputeReadiness(body) ==
    /\ run.pc = "idle"
    /\ run.n < MaxRuns
    /\ IF MissingInput(exam.scores, exam.qcm)
       THEN run' = Ended("raised", run.n + 1, body, "none", 400, FALSE, exam.stored, NoBundle)
       ELSE \E graph_json \in LoadedGraphs(snapshots, ConceptMap(exam.qcm)) :
              \E outcome \in Outcomes(run.n + 1, body,
                                      RunPipeline(ResolveParams(body, exam.parameters),
                                                  graph_json)) :
                 run' = outcome
    /\ UNCHANGED <<snapshots, sess, nAccepted, call, exam>>

\* get_db after the handler returned: session.commit()
ComputeCommit ==
    /\ run.pc = "returned"
    /\ exam' = [exam EXCEPT !.stored = run.view]
    /\ run' = [run EXCEPT !.pc = "committed", !.installed = run.bundle]
    /\ UNCHANGED <<snapshots, sess, nAccepted, call>>

\* get_db after the handler raised: session.rollback(), and the exception
\* goes on to the client
ComputeRollback ==
    /\ run.pc = "raised"
    /\ run' = [run EXCEPT !.pc = "rolledback"]
    /\ UNCHANGED <<snapshots, sess, nAccepted, call, exam>>

\* get_db: session.close(); the request is over
ComputeClose ==
    /\ run.pc \in {"committed", "rolledback"}
    /\ run' = [NoRun EXCEPT !.n = run.n, !.installed = run.installed]
    /\ UNCHANGED <<snapshots, sess, nAccepted, call, exam>>

ScoreRow(s, q, v) == [student_id_external |-> s, question_id_external |-> q, score |-> Int2Rat(v)]
QcmRow(q, c, w) == [question_id_external |-> q, concept_id |-> c, weight |-> Tenths(w)]

\* the exam of the scenario: Q1 and Q2 of 10 points, Q1 tagged to A and Q2 to
\* B with weight 1.0, student s1 with 8 and 3 points
ScenarioMaxScore == [q \in {"q1", "q2"} |-> Int2Rat(10)]
ScenarioScores == <<ScoreRow("s1", "q1", 8), ScoreRow("s1", "q2", 3)>>
ScenarioQcm == <<QcmRow("q1", "A", 10), QcmRow("q2", "B", 10)>>

\* the tables of the exams the compute requests meet
ComputeScores ==
    {<<>>, ScenarioScores,
     ScenarioScores \o <<ScoreRow("s2", "q1", 10)>>,
     ScenarioScores \o <<ScoreRow("s2", "q1", 8), ScoreRow("s2", "q2", 3)>>}
ComputeQcm == {<<>>, ScenarioQcm, ScenarioQcm \o <<QcmRow("q2", "C", 5)>>}
ComputeParameters ==
    {None, Some([alpha |-> Int2Rat(2), beta |-> Rat(1, 2), gamma |-> Rat(1, 10),
                 threshold |-> Rat(1, 2)])}
ComputeGraphRows ==
    {<<>>, <<[version |-> InitialVersion, graph_json |-> EmptyJson]>>,
     <<[version |-> InitialVersion, graph_json |-> ScenarioGraph]>>}
ComputeBodies ==
    {DefaultBody, [alpha |-> Rat(1, 2), beta |-> One, gamma |-> Zero, threshold |-> One]}

\* a bundle as the tables hold it, next to the student tokens
TablesOf(bundle, student_tokens) ==
    [readiness_results |-> bundle.readiness_results,
     class_aggregates |-> bundle.class_aggregates,
     clusters |-> bundle.clusters,
     cluster_assignments |-> bundle.cluster_assignments,
     student_tokens |-> student_tokens]

\* what an earlier run (run 0) on the scenario's exam has left in the tables
BundleOfOne(pipeline_result) ==
    NewBundle(pipeline_result,
              CHOOSE r \in run_clustering(pipeline_result.final_readiness_matrix,
                                          pipeline_result.concepts,
                                          pipeline_result.students, DefaultK) : TRUE,
              0)
StaleBundle ==
    BundleOfOne(run_readiness_pipeline(ScoresDict(ScenarioScores),
                    MaxScoresDict(ScenarioScores, ScenarioMaxScore),
                    ConceptMap(ScenarioQcm), ScenarioGraph,
                    DefaultBody.alpha, DefaultBody.beta, DefaultBody.gamma,
                    DefaultBody.threshold))
StaleTokens == {[run |-> 0, row |-> [student_id_external |-> "s1"]]}

InitCompute ==
    /\ snapshots \in ComputeGraphRows
    /\ sess = [s \in Sessions |-> Idle]
    /\ nAccepted = 0
    /\ call = NoCall
    /\ \E scores \in ComputeScores, qcm \in ComputeQcm, parameters \in ComputeParameters,
          stale \in {NoTables, TablesOf(StaleBundle, StaleTokens)} :
          /\ exam = [max_score |-> ScenarioMaxScore, scores |-> scores, qcm |-> qcm,
                     parameters |-> parameters, stored |-> stale]
          /\ run = [NoRun EXCEPT !.installed =
                        [f \in DOMAIN NoBundle |-> IF f = "n" THEN 0 ELSE stale[f]]]

\* compute requests processed one after another
NextCompute ==
    \/ \E body \in ComputeBodies : ComputeReadiness(body)
    \/ ComputeCommit
    \/ ComputeRollback
    \/ ComputeClose

SpecCompute == InitCompute /\ [][NextCompute]_vars

(***************************************************************************)
(* Claims on the compute request                                           *)
(***************************************************************************)
FourTables == {"readiness_results", "class_aggregates", "clusters", "cluster_assignments"}

\* C11: at every commit point the stored readiness results, class
\* aggregates, clusters and cluster assignments of the exam are the bundle
\* of the most recent successful run, every row of them written by that
\* run; a run that raised after its deletes is rolled back, so the stored
\* tables are those from before the request.
C11_OneBundle ==
    /\ \A t \in FourTables :
          /\ exam.stored[t] = run.installed[t]
          /\ \A r \in exam.stored[t] : r.run = run.installed.n
    /\ run.pc = "committed" => run.installed.n = run.n /\ exam.stored = run.view
    /\ run.pc = "rolledback" => run.installed.n < run.n /\ exam.stored = run.before

\* a second request failed after it had deleted the bundle of the first
\* one, which had itself replaced the bundle of an earlier run
C11_Witness ==
    /\ run.pc = "rolledback"
    /\ run.status = 500
    /\ run.n = 2
    /\ run.installed.n = 1
    /\ run.view.readiness_results # run.before.readiness_results
    /\ exam.stored.readiness_results # {}
    /\ \E r \in exam.stored.student_tokens : r.run = 0

\* C12: a compute request on an exam without score rows or without
\* question-concept mapping rows ends with status 400 before the pipeline
\* ran, and the stored results, aggregates, clusters, assignments and
\* student tokens are what they were.
C12_InputError ==
    (run.pc # "idle" /\ (exam.scores = <<>> \/ exam.qcm = <<>>)) =>
        /\ run.status = 400
        /\ ~run.computed
        /\ run.pc \in {"raised", "rolledback"}
        /\ run.view = run.before
        /\ exam.stored = run.before

\* scores but no mapping, on an exam that holds the results of an earlier run
C12_Witness ==
    /\ run.pc = "rolledback"
    /\ run.status = 400
    /\ exam.scores # <<>>
    /\ exam.qcm = <<>>
    /\ exam.stored.readiness_results # {}
    /\ exam.stored.student_tokens # {}

\* the graph of the exam is missing, or its latest snapshot has no node
GraphMissingOrEmpty ==
    \/ snapshots = <<>>
    \/ \E r \in LatestRows(snapshots) : r.graph_json.nodes = <<>>

\* C13: a compute request whose input is present and that no exception of
\* the database cuts short succeeds when the graph is missing or has no
\* node, and its results hold, for every student with a score and every
\* concept of the question-concept map, a record with penalty 0 and boost 0.
C13_FallbackGraph ==
    (/\ run.pc # "idle"
     /\ run.fault = "none"
     /\ ~MissingInput(exam.scores, exam.qcm)
     /\ GraphMissingOrEmpty) =>
        /\ run.status = 200
        /\ \A s \in DOMAIN ScoresDict(exam.scores), c \in DOMAIN ConceptMap(exam.qcm) :
              \E r \in run.bundle.readiness_results :
                 /\ r.row.student_id = s
                 /\ r.row.concept_id = c
                 /\ r.row.prerequisite_penalty = Zero
                 /\ r.row.downstream_boost = Zero

(***************************************************************************)
(* The pipeline of one compute request, on the tables of drawn exams       *)
(***************************************************************************)
\* number of parents of the concept with many weak parents
ManyParents == 10
ParentId(i) == "P" \o ToString(i)
StarGraph ==
    [nodes |-> [i \in 1..(ManyParents + 1) |->
                   IF i <= ManyParents THEN NodeJson(ParentId(i)) ELSE NodeJson("C")],
     edges |-> [i \in 1..ManyParents |-> EdgeJson(ParentId(i), "C", 10)]]

\* valid DAGs over A, B, C: isolated nodes, one edge (weight 0.5, 0.0), two
\* parents, two children, a chain, and nodes listed against the edges
PipelineGraphs ==
    {ScenarioGraph,
     [nodes |-> <<NodeJson("A"), NodeJson("B")>>, edges |-> <<>>],
     [nodes |-> <<NodeJson("A"), NodeJson("B")>>, edges |-> <<EdgeJson("A", "B", 0)>>],
     [nodes |-> <<NodeJson("B"), NodeJson("A")>>, edges |-> <<EdgeJson("A", "B", 10)>>],
     [nodes |-> <<NodeJson("A"), NodeJson("B"), NodeJson("C")>>,
      edges |-> <<EdgeJson("A", "C", 10), EdgeJson("B", "C", 10)>>],
     [nodes |-> <<NodeJson("A"), NodeJson("B"), NodeJson("C")>>,
      edges |-> <<EdgeJson("A", "B", 10), EdgeJson("A", "C", 10)>>],
     [nodes |-> <<NodeJson("A"), NodeJson("B"), NodeJson("C")>>,
      edges |-> <<EdgeJson("A", "B", 10), EdgeJson("B", "C", 5)>>],
     [nodes |-> <<NodeJson("C"), NodeJson("B"), NodeJson("A")>>,
      edges |-> <<EdgeJson("B", "C", 5), EdgeJson("A", "B", 10)>>]}
GraphRow(g) == <<[version |-> InitialVersion, graph_json |-> g]>>
PipelineGraphRows == {<<>>} \cup {GraphRow(g) : g \in PipelineGraphs}

Questions == <<"q1", "q2", "q3">>
MaxScoreOf(v) == [q \in Range(Questions) |-> Int2Rat(v[CHOOSE i \in 1..3 : Questions[i] = q])]
PipelineMaxScores ==
    {MaxScoreOf(v) : v \in {<<10, 10, 10>>, <<10, 0, 5>>, <<1, 1, 1>>, <<2, 2, 1>>, <<2, 4, 4>>}}

\* the score rows of one student: <<question, score>> pairs
Profile(s, vs) == [i \in 1..Len(vs) |-> ScoreRow(s, vs[i][1], vs[i][2])]
FirstProfiles ==
    {Profile("s1", vs) : vs \in
        {<<<<"q1", 8>>, <<"q2", 3>>>>,
         <<<<"q1", 10>>, <<"q2", 10>>, <<"q3", 0>>>>,
         <<<<"q1", 0>>, <<"q2", 0>>, <<"q3", 0>>>>,
         <<<<"q2", 3>>>>,
         <<<<"q1", -1>>, <<"q2", 5>>, <<"q3", 2>>>>,
         <<<<"q1", 2>>>>,
         <<<<"q1", 4>>, <<"q2", 3>>, <<"q3", 3>>>>}}
SecondProfiles ==
    {Profile("s2", vs) : vs \in
        {<<>>, <<<<"q1", 10>>, <<"q2", 0>>, <<"q3", 5>>>>, <<<<"q3", 1>>>>}}
PipelineScores == {a \o b : a \in FirstProfiles, b \in SecondProfiles}

\* mappings: the scenario's; three questions on A, one of them on B too; a
\* tag of weight 0.0; two questions on A; only C tagged
PipelineQcm ==
    {ScenarioQcm,
     <<QcmRow("q1", "A", 10), QcmRow("q2", "A", 10), QcmRow("q3", "A", 5),
       QcmRow("q3", "B", 10)>>,
     <<QcmRow("q1", "A", 0), QcmRow("q2", "B", 10), QcmRow("q3", "C", 10)>>,
     <<QcmRow("q1", "A", 10), QcmRow("q2", "A", 10), QcmRow("q2", "B", 5),
       QcmRow("q3", "C", 5)>>,
     <<QcmRow("q1", "C", 10)>>}

\* stored parameters: 0, negative and large values
Extremes == {Int2Rat(-1), Zero, Int2Rat(100)}
ExtremeParameters ==
    {Some(p) : p \in [alpha : Extremes, beta : Extremes, gamma : Extremes,
                      threshold : Extremes]}

PipelineBodies ==
    {DefaultBody, [alpha |-> Rat(1, 2), beta |-> One, gamma |-> Rat(2, 10), threshold |-> One]}

PipelineInput == [op |-> "input", arg |-> EmptyJson, result |-> None]

PipelineInputs ==
    [max_score : PipelineMaxScores, scores : PipelineScores, qcm : PipelineQcm,
     parameters : {None}, graph_rows : PipelineGraphRows]
    \cup
    [max_score : {MaxScoreOf(<<10, 10, 10>>)},
     scores : {Profile("s1", <<<<"q1", 8>>, <<"q2", 3>>>>),
               Profile("s1", <<<<"q1", 10>>, <<"q2", 10>>, <<"q3", 0>>>>)},
     qcm : {ScenarioQcm, <<QcmRow("q1", "C", 10)>>},
     parameters : ExtremeParameters \cup {None},
     graph_rows : {GraphRow(ScenarioGraph), GraphRow(StarGraph)}]

InitPipeline ==
    /\ sess = [s \in Sessions |-> Idle]
    /\ nAccepted = 0
    /\ call = PipelineInput
    /\ run = NoRun
    /\ \E x \in PipelineInputs :
          /\ snapshots = x.graph_rows
          /\ exam = [max_score |-> x.max_score, scores |-> x.scores, qcm |-> x.qcm,
                     parameters |-> x.parameters, stored |-> NoTables]

\* the request body, the parameters in force, and what the pipeline returns
PipelineCall(body, p, graph_json) == [body |-> body, p |-> p, out |-> RunPipeline(p, graph_json)]

\* compute_readiness from "Load parameters" to "Run readiness pipeline"
Pipeline(body) ==
    /\ call.op = "input"
    /\ ~MissingInput(exam.scores, exam.qcm)
    /\ \E graph_json \in LoadedGraphs(snapshots, ConceptMap(exam.qcm)) :
          call' = [op |-> "run_readiness_pipeline", arg |-> graph_json,
                   result |-> PipelineCall(body, ResolveParams(body, exam.parameters),
                                           graph_json)]
    /\ UNCHANGED <<snapshots, sess, nAccepted, exam, run>>

NextPipeline == \E body \in PipelineBodies : Pipeline(body)

SpecPipeline == InitPipeline /\ [][NextPipeline]_vars

(***************************************************************************)
(* Claims on the pipeline: what a run was given and what it emitted,       *)
(* stated over the rows of the exam and the graph JSON, not over the       *)
(* matrices of the stages.                                                 *)
(***************************************************************************)
Ran == call.op = "run_readiness_pipeline" /\ ~call.result.out.raised
Emitted == call.result.out.readiness_results
Aggregated == call.result.out.class_aggregates
InForce == call.result.p

\* students with at least one score row, concepts that are nodes of the graph
Scored == {exam.scores[i].student_id_external : i \in 1..Len(exam.scores)}
Nodes == JsonIds(call.arg)
Mapped == {exam.qcm[i].concept_id : i \in 1..Len(exam.qcm)}
RecordOf(s, c) == CHOOSE r \in Range(Emitted) : r.student_id = s /\ r.concept_id = c

\* C14: one run emits exactly one readiness record per pair of a student
\* with at least one score and a node of the graph, no other record, and
\* exactly one class aggregate per node of the graph.
C14_OneRecordPerPair ==
    Ran =>
        /\ \A s \in Scored, c \in Nodes :
              Cardinality({i \in DOMAIN Emitted :
                              Emitted[i].student_id = s /\ Emitted[i].concept_id = c}) = 1
        /\ \A i \in DOMAIN Emitted :
              Emitted[i].student_id \in Scored /\ Emitted[i].concept_id \in Nodes
        /\ \A c \in Nodes :
              Cardinality({i \in DOMAIN Aggregated : Aggregated[i].concept_id = c}) = 1
        /\ \A i \in DOMAIN Aggregated : Aggregated[i].concept_id \in Nodes

\* two students, a mapped concept that is no node (no record for it), and a
\* node without any tagged question (records for it)
C14_Witness ==
    /\ Ran
    /\ Cardinality(Scored) = 2
    /\ "C" \in Mapped \ Nodes
    /\ "B" \in Nodes \ Mapped
    /\ Len(Emitted) = 4
    /\ Len(Aggregated) = 2

\* C15: the final readiness of every emitted record is in [0,1], whatever
\* alpha, beta, gamma and threshold are (0, negative, large), also for an
\* absent direct readiness and for a penalty above 1.
C15_FinalInUnitInterval ==
    Ran => \A i \in DOMAIN Emitted :
              RLe(Zero, Emitted[i].final_readiness) /\ RLe(Emitted[i].final_readiness, One)

\* the concept with many weak parents under a large alpha and a negative
\* beta: the penalty is above 1, the direct readiness absent, and the
\* weighted sum, above 1, is clipped to 1
C15_Witness ==
    /\ Ran
    /\ InForce.beta = Int2Rat(-1)
    /\ InForce.alpha = Int2Rat(100)
    /\ \E i \in DOMAIN Emitted :
          /\ RLt(One, Emitted[i].prerequisite_penalty)
          /\ ~Emitted[i].direct_readiness.some
          /\ Emitted[i].final_readiness = One

\* the graph a run was given: the weight of the edge u -> v, the children
\* and the immediate parents of a node
JsonWeight(u, v) ==
    Tenths(WeightOf(CHOOSE e \in Range(call.arg.edges) : Pair(e) = <<u, v>>))
Children(p) == {d \in Nodes : <<p, d>> \in JsonPairs(call.arg)}
Parents(c) == {p \in Nodes : <<p, c>> \in JsonPairs(call.arg)}

\* the direct readiness a record carries, 0 where it carries none
EffectiveDirect(s, c) == NanToZero(RecordOf(s, c).direct_readiness)

NonNegativeScores == \A i \in DOMAIN exam.scores : RLe(Zero, exam.scores[i].score)

\* sum over the children d of p of edge_weight * 0.4 * effective direct
BoostSum(s, p) ==
    RSumOver([d \in Children(p) |->
                 RMul(RMul(JsonWeight(p, d), Rat(4, 10)), EffectiveDirect(s, d))],
             Children(p))

\* C16: for non-negative scores the downstream boost of every (student,
\* concept) is min(0.2, sum over the children of edge_weight * 0.4 *
\* effective direct readiness), hence within [0, 0.2]; the cap is applied
\* once, to the sum.
C16_BoostCapped ==
    Ran /\ NonNegativeScores =>
        \A s \in Scored, p \in Nodes :
            /\ RecordOf(s, p).downstream_boost = RMin(Rat(2, 10), BoostSum(s, p))
            /\ RLe(Zero, RecordOf(s, p).downstream_boost)
            /\ RLe(RecordOf(s, p).downstream_boost, Rat(2, 10))

\* two children that each add less than 0.2 and together more than 0.2:
\* the boost is 0.2
C16_Witness ==
    /\ Ran
    /\ NonNegativeScores
    /\ \E s \in Scored, p \in Nodes :
          /\ Cardinality(Children(p)) = 2
          /\ \A d \in Children(p) :
                RLt(RMul(RMul(JsonWeight(p, d), Rat(4, 10)), EffectiveDirect(s, d)),
                    Rat(2, 10))
          /\ RLt(Rat(2, 10), BoostSum(s, p))
          /\ RecordOf(s, p).downstream_boost = Rat(2, 10)

\* the rows of the mapping that tag a question to c which s has a score for
HasScore(s, q) ==
    \E j \in DOMAIN exam.scores :
        exam.scores[j].student_id_external = s /\ exam.scores[j].question_id_external = q
ScoreOf(s, q) ==
    exam.scores[CHOOSE j \in DOMAIN exam.scores :
                   /\ exam.scores[j].student_id_external = s
                   /\ exam.scores[j].question_id_external = q].score
AttemptedTags(s, c) ==
    {i \in DOMAIN exam.qcm :
        exam.qcm[i].concept_id = c /\ HasScore(s, exam.qcm[i].question_id_external)}

\* score / max_score, 0 for a question of max_score 0
NormalizedScore(s, q) ==
    IF exam.max_score[q] = Zero THEN Zero ELSE RDiv(ScoreOf(s, q), exam.max_score[q])

\* the total weight of the attempted tags and their weighted average
AttemptedWeight(s, c) ==
    RSumOver([i \in AttemptedTags(s, c) |-> exam.qcm[i].weight], AttemptedTags(s, c))
WeightedAverage(s, c) ==
    RDiv(RSumOver([i \in AttemptedTags(s, c) |->
                      RMul(exam.qcm[i].weight,
                           NormalizedScore(s, exam.qcm[i].question_id_external))],
                  AttemptedTags(s, c)),
         AttemptedWeight(s, c))

\* sum over the immediate parents p of c of edge_weight * max(0, threshold -
\* effective direct)
PenaltySum(s, c) ==
    RSumOver([p \in Parents(c) |->
                 RMul(JsonWeight(p, c),
                      RMax(Zero, RSub(InForce.threshold, EffectiveDirect(s, p))))],
             Parents(c))

\* a record without direct readiness counts with 0 in the penalty of the
\* children, in the boost of the parents and in its own final readiness
NullUsedAsZero(s, c) ==
    /\ \A d \in Children(c) : RecordOf(s, d).prerequisite_penalty = PenaltySum(s, d)
    /\ \A p \in Parents(c) :
          RecordOf(s, p).downstream_boost = RMin(Rat(2, 10), BoostSum(s, p))
    /\ RecordOf(s, c).final_readiness =
          RMin(One, RMax(Zero,
                   RSub(RMul(InForce.gamma, RecordOf(s, c).downstream_boost),
                        RMul(InForce.beta, RecordOf(s, c).prerequisite_penalty))))

\* C17 as stated: the direct readiness of a record is null exactly when the
\* student attempted no question tagged to the concept, and otherwise the
\* weighted average over the attempted tagged questions.
C17_NullExactlyWhenUnattempted ==
    Ran => \A s \in Scored, c \in Nodes :
              /\ ~RecordOf(s, c).direct_readiness.some <=> AttemptedTags(s, c) = {}
              /\ RecordOf(s, c).direct_readiness.some =>
                    RecordOf(s, c).direct_readiness.val = WeightedAverage(s, c)

\* C17: the direct readiness of a record is null exactly when the tags of
\* the concept on questions the student attempted have no positive total
\* weight (no such tag, or tags of weight 0 only); otherwise it is the
\* weighted average of score / max_score over the attempted tagged
\* questions, a question of max_score 0 counting 0.  A null direct
\* readiness is used as 0 in the penalty of the children, the boost of the
\* parents and the final readiness, and the record carries null.
C17_DirectReadiness ==
    Ran => \A s \in Scored, c \in Nodes :
              /\ ~RecordOf(s, c).direct_readiness.some <=>
                    ~RLt(Zero, AttemptedWeight(s, c))
              /\ RecordOf(s, c).direct_readiness.some =>
                    RecordOf(s, c).direct_readiness.val = WeightedAverage(s, c)
              /\ ~RecordOf(s, c).direct_readiness.some => NullUsedAsZero(s, c)

\* a student who attempted the one question tagged to A, with weight 0: the
\* record of A carries null, and B, a child of A, has the penalty of a
\* parent of readiness 0
C17_Witness ==
    /\ Ran
    /\ \E s \in Scored, c \in Nodes, d \in Nodes :
          /\ AttemptedTags(s, c) # {}
          /\ RecordOf(s, c).direct_readiness = None
          /\ d \in Children(c)
          /\ RLt(Zero, InForce.threshold)
          /\ RLt(Zero, JsonWeight(c, d))
          /\ RecordOf(s, d).prerequisite_penalty = RMul(JsonWeight(c, d), InForce.threshold)

\* C18: the prerequisite penalty of every (student, concept) is the sum
\* over the immediate parents of edge_weight * max(0, threshold - effective
\* direct readiness): it is not negative, no other concept and no order of
\* processing enters it, and it is not divided by the number of parents
\* (parents of weight 1 and readiness 0 at threshold 0.6 add 0.6 each).
C18_PenaltyOverParents ==
    Ran => \A s \in Scored, c \in Nodes :
              /\ RecordOf(s, c).prerequisite_penalty = PenaltySum(s, c)
              /\ RLe(Zero, RecordOf(s, c).prerequisite_penalty)
              /\ (/\ InForce.threshold = Rat(6, 10)
                  /\ \A p \in Parents(c) :
                        JsonWeight(p, c) = One /\ EffectiveDirect(s, p) = Zero)
                 => RecordOf(s, c).prerequisite_penalty =
                       Rat(6 * Cardinality(Parents(c)), 10)

\* the concept with ManyParents parents of weight 1 and readiness 0 at
\* threshold 0.6: with 10 parents its penalty is 6.0
C18_Witness ==
    /\ Ran
    /\ InForce.threshold = Rat(6, 10)
    /\ \E s \in Scored, c \in Nodes :
          /\ Cardinality(Parents(c)) = ManyParents
          /\ \A p \in Parents(c) : JsonWeight(p, c) = One /\ EffectiveDirect(s, p) = Zero
          /\ RecordOf(s, c).prerequisite_penalty = Rat(6 * ManyParents, 10)
          /\ RLt(One, RecordOf(s, c).prerequisite_penalty)

\* the three factors of the confidence of a concept, from the tables: the
\* number of its tags, the max scores of its tagged questions, and the
\* variance of the mean direct readiness over the concept and its parents
\* and children (the concepts no student has a direct readiness for left out)
TaggedRows(c) == {i \in DOMAIN exam.qcm : exam.qcm[i].concept_id = c}
TotalMaxScore(c) ==
    RSumOver([i \in TaggedRows(c) |-> exam.max_score[exam.qcm[i].question_id_external]],
             TaggedRows(c))
Neighbours(c) == Parents(c) \cup Children(c)
WithDirect(c) == {s \in Scored : RecordOf(s, c).direct_readiness.some}
MeanDirect(c) ==
    RDiv(RSumOver([s \in WithDirect(c) |-> RecordOf(s, c).direct_readiness.val],
                  WithDirect(c)),
         Int2Rat(Cardinality(WithDirect(c))))
Related(c) == {x \in {c} \cup Neighbours(c) : WithDirect(x) # {}}
MeanOfRelated(c) ==
    RDiv(RSumOver([x \in Related(c) |-> MeanDirect(x)], Related(c)),
         Int2Rat(Cardinality(Related(c))))
NeighbourVariance(c) ==
    IF Neighbours(c) = {} \/ Cardinality(Related(c)) < 2 THEN Zero
    ELSE RDiv(RSumOver([x \in Related(c) |->
                           RMul(RSub(MeanDirect(x), MeanOfRelated(c)),
                                RSub(MeanDirect(x), MeanOfRelated(c)))],
                       Related(c)),
              Int2Rat(Cardinality(Related(c))))

\* low = 1, medium = 2, high = 3
F1(c) == IF Cardinality(TaggedRows(c)) >= 3 THEN 3
         ELSE IF Cardinality(TaggedRows(c)) = 2 THEN 2 ELSE 1
F2(c) == IF RLe(Int2Rat(10), TotalMaxScore(c)) THEN 3
         ELSE IF RLe(Int2Rat(5), TotalMaxScore(c)) THEN 2 ELSE 1
F3(c) == IF RLt(NeighbourVariance(c), Rat(15, 100)) THEN 3
         ELSE IF RLe(NeighbourVariance(c), Rat(30, 100)) THEN 2 ELSE 1
LowestOf(a, b, c) == <<"low", "medium", "high">>[Min(a, Min(b, c))]

\* C19: the confidence of every record is the lowest of F1 (number of
\* tagged questions), F2 (total max score of the tagged questions) and F3
\* (variance over the concept and its neighbours, 0 without neighbour); it
\* is the same for all students of a run.
C19_ConfidenceIsMinimum ==
    Ran => \A c \in Nodes : \A s \in Scored :
              RecordOf(s, c).confidence = LowestOf(F1(c), F2(c), F3(c))

(***************************************************************************)
(* get_topological_order on the graphs that build_graph makes of the graph *)
(* JSONs: those of validate_graph's inputs and those of the pipeline.       *)
(***************************************************************************)
Order ==
    /\ call.op = "input"
    /\ call' = [op |-> "get_topological_order", arg |-> call.arg,
                result |-> get_topological_order(build_graph(call.arg))]
    /\ UNCHANGED <<snapshots, sess, nAccepted, exam, run>>

InitOrder ==
    /\ snapshots = <<>>
    /\ sess = [s \in Sessions |-> Idle]
    /\ nAccepted = 0
    /\ \E x \in GraphJsons \cup PipelineGraphs :
          call = [op |-> "input", arg |-> x, result |-> None]
    /\ exam = NoExam
    /\ run = NoRun

NextOrder == Order

SpecOrder == InitOrder /\ [][NextOrder]_vars

\* the graph the order was asked of, its edges as pairs, and the place of a
\* node in a sequence of ids
Ordered == build_graph(call.arg)
GraphPairs(G) == {<<G.edges[i].source, G.edges[i].target>> : i \in 1..Len(G.edges)}
IsDag(G) == Acyclic(NodeIds(G), GraphPairs(G))
Place(order, n) == CHOOSE i \in DOMAIN order : order[i] = n

\* C20: on every directed acyclic graph get_topological_order returns a
\* sequence that holds every node of the graph exactly once and in which
\* the source of every edge comes before its target.
C20_TopologicalOrder ==
    call.op = "get_topological_order" /\ IsDag(Ordered) =>
        /\ ~call.result.raised
        /\ Len(call.result.order) = Cardinality(NodeIds(Ordered))
        /\ Range(call.result.order) = NodeIds(Ordered)
        /\ \A p \in GraphPairs(Ordered) :
              Place(call.result.order, p[1]) < Place(call.result.order, p[2])

\* a graph JSON that validate_graph accepts, with two edges, one of them
\* from a node that is listed after the target of the edge
C20_Witness ==
    /\ call.op = "get_topological_order"
    /\ validate_graph(call.arg).ok
    /\ Cardinality(GraphPairs(Ordered)) = 2
    /\ \E p \in GraphPairs(Ordered) :
          Place(NodeList(Ordered), p[2]) < Place(NodeList(Ordered), p[1])
    /\ ~call.result.raised
    /\ Len(call.result.order) = 3

(***************************************************************************)
(* graph_to_json(build_graph(x)) on the graph JSONs.                       *)
(***************************************************************************)
RoundTrip ==
    /\ call.op = "input"
    /\ call' = [op |-> "graph_to_json", arg |-> call.arg,
                result |-> graph_to_json(build_graph(call.arg))]
    /\ UNCHANGED <<snapshots, sess, nAccepted, exam, run>>

NextRoundTrip == RoundTrip

SpecRoundTrip == InitJson /\ [][NextRoundTrip]_vars

\* every node has id and label, every edge has source, target and weight,
\* the endpoints are listed nodes, and no ordered pair is repeated
WellFormed(j) ==
    /\ \A i \in DOMAIN j.nodes : {"id", "label"} \subseteq DOMAIN j.nodes[i]
    /\ \A i \in DOMAIN j.edges :
          /\ {"source", "target", "weight"} \subseteq DOMAIN j.edges[i]
          /\ j.edges[i].source \in JsonIds(j)
          /\ j.edges[i].target \in JsonIds(j)
    /\ \A i, k \in DOMAIN j.edges : Pair(j.edges[i]) = Pair(j.edges[k]) => i = k

\* C21: for every well-formed graph JSON x, graph_to_json(build_graph(x))
\* has the nodes of x with their labels and the edges of x with their
\* weights, each once.
C21_RoundTrip ==
    call.op = "graph_to_json" /\ WellFormed(call.arg) =>
        /\ Range(call.result.nodes) = Range(call.arg.nodes)
        /\ Len(call.result.nodes) = Cardinality(Range(call.arg.nodes))
        /\ Range(call.result.edges) = Range(call.arg.edges)
        /\ Len(call.result.edges) = Cardinality(Range(call.arg.edges))

\* a well-formed JSON with two edges that comes back with its edges in
\* another order
C21_Witness ==
    /\ call.op = "graph_to_json"
    /\ WellFormed(call.arg)
    /\ Len(call.arg.edges) = 2
    /\ call.result.edges # call.arg.edges
    /\ Range(call.result.edges) = Range(call.arg.edges)

(***************************************************************************)
(* run_clustering on drawn readiness matrices: one to three students, no   *)
(* to four concepts, k from 1 to the default.                              *)
(***************************************************************************)
ClusterConcepts == {<<>>, <<"A">>, <<"A", "B", "C">>, <<"A", "B", "C", "D">>}
ClusterStudentLists == {<<"s1">>, <<"s1", "s2">>, <<"s1", "s2", "s3">>}
ClusterKs == {1, 2, 3, DefaultK}

\* readiness vectors in tenths over A, B, C, D: all different; all
\* different again; equal in pairs
ReadinessRow(v) == [c \in {"A", "B", "C", "D"} |-> Tenths(v[CHOOSE i \in 1..4 : <<"A", "B", "C", "D">>[i] = c])]
ReadinessRows == {ReadinessRow(v) : v \in {<<0, 5, 10, 2>>, <<10, 5, 0, 7>>, <<0, 0, 10, 10>>}}

\* the matrix of the students with the given rows, cut to the concepts
MatrixOf(rows, concepts) == [s \in DOMAIN rows |-> [c \in Range(concepts) |-> rows[s][c]]]

ClusterInputsOf(students) ==
    {[final_readiness_matrix |-> MatrixOf(rows, concepts), concepts |-> concepts,
      students |-> students, k |-> k] :
        concepts \in ClusterConcepts, k \in ClusterKs,
        rows \in [Range(students) -> ReadinessRows]}
ClusterInputs == UNION {ClusterInputsOf(students) : students \in ClusterStudentLists}

InitCluster ==
    /\ snapshots = <<>>
    /\ sess = [s \in Sessions |-> Idle]
    /\ nAccepted = 0
    /\ \E x \in ClusterInputs :
          call = [op |-> "input", arg |-> x, result |-> None]
    /\ exam = NoExam
    /\ run = NoRun

RunClustering ==
    /\ call.op = "input"
    /\ \E clustering_result \in run_clustering(call.arg.final_readiness_matrix,
                                                call.arg.concepts, call.arg.students,
                                                call.arg.k) :
          call' = [op |-> "run_clustering", arg |-> call.arg, result |-> clustering_result]
    /\ UNCHANGED <<snapshots, sess, nAccepted, exam, run>>

NextCluster == RunClustering

SpecCluster == InitCluster /\ [][NextCluster]_vars

\* what run_clustering was given and what it returned
Clustered == call.op = "run_clustering"
Returned == call.result.clusters
Assigned == call.result.assignments
ActualK == Min(call.arg.k, Len(call.arg.students))

\* C22: run_clustering returns 1 cluster when min(k, number of students) is
\* below 2 and min(k, number of students) clusters otherwise; for one
\* student the cluster has one member, the student is assigned to it and
\* its centroid is the student's readiness vector.
C22_ClusterCount ==
    Clustered =>
        /\ ~call.result.raised
        /\ Len(Returned) = IF ActualK < 2 THEN 1 ELSE ActualK
        /\ Len(call.arg.students) = 1 =>
              /\ Returned[1].student_count = 1
              /\ Assigned[call.arg.students[1]] = Returned[1].cluster_label
              /\ Returned[1].centroid = call.arg.final_readiness_matrix[call.arg.students[1]]

\* C23: every returned cluster, of the k-means branch and of the single
\* cluster fallback, carries min(3, number of concepts) weak concepts and
\* one suggested intervention for each of them.
C23_OneInterventionPerWeakConcept ==
    Clustered /\ ~call.result.raised =>
        \A i \in DOMAIN Returned :
            /\ Len(Returned[i].top_weak_concepts) = Min(3, Len(call.arg.concepts))
            /\ Len(Returned[i].suggested_interventions) = Len(Returned[i].top_weak_concepts)

\* the sum of the student_count of the clusters from the i-th on
RECURSIVE CountSum(_, _)
CountSum(clusters, i) ==
    IF i > Len(clusters) THEN 0 ELSE clusters[i].student_count + CountSum(clusters, i + 1)

\* C30: the returned assignments and clusters are a partition of the
\* students: every student has one label, every label in use is that of
\* one returned cluster, the student_count of a cluster is the number of
\* students with its label, and the counts add up to the number of students.
C30_Partition ==
    Clustered /\ ~call.result.raised =>
        /\ DOMAIN Assigned = Range(call.arg.students)
        /\ \A s \in DOMAIN Assigned :
              Cardinality({i \in DOMAIN Returned : Returned[i].cluster_label = Assigned[s]}) = 1
        /\ \A i \in DOMAIN Returned :
              Returned[i].student_count =
                 Cardinality({s \in DOMAIN Assigned : Assigned[s] = Returned[i].cluster_label})
        /\ CountSum(Returned, 1) = Len(call.arg.students)

\* three students in the k-means branch: a cluster of two, a cluster of one
C30_Witness ==
    /\ Clustered
    /\ ~call.result.raised
    /\ Len(call.arg.students) = 3
    /\ Len(Returned) >= 2
    /\ \E i, j \in DOMAIN Returned :
          Returned[i].student_count = 2 /\ Returned[j].student_count = 1

(***************************************************************************)
(* rank_interventions: one item per concept with a student below the       *)
(* threshold, sorted by impact, largest first.  list.sort is stable, with  *)
(* reverse=True too: items of equal impact keep the order of the concepts. *)
(***************************************************************************)
StudentsBelow(final_readiness_matrix, concept, threshold) ==
    Cardinality({s \in DOMAIN final_readiness_matrix :
                    RLt(final_readiness_matrix[s][concept], threshold)})

\* np.mean of the concept's column (of at least one student)
CurrentReadiness(final_readiness_matrix, concept) ==
    RDiv(RSumOver([s \in DOMAIN final_readiness_matrix |-> final_readiness_matrix[s][concept]],
                  DOMAIN final_readiness_matrix),
         Int2Rat(Cardinality(DOMAIN final_readiness_matrix)))

DownstreamCount(adjacency, concepts, concept) ==
    Cardinality({i \in 1..Len(concepts) : RLt(Zero, adjacency[concept][concepts[i]])})

\* mutant: the downstream count is taken as it is, zero included
ImpactOfNoFloor(students_below, downstream_count, current_readiness) ==
    RMul(Int2Rat(students_below * downstream_count), RSub(One, current_readiness))
ImpactOf(students_below, downstream_count, current_readiness) ==
    RMul(Int2Rat(students_below * (IF downstream_count > 1 THEN downstream_count ELSE 1)),
         RSub(One, current_readiness))

Intervention(final_readiness_matrix, concepts, adjacency, threshold, concept) ==
    LET students_below == StudentsBelow(final_readiness_matrix, concept, threshold)
        current_readiness == CurrentReadiness(final_readiness_matrix, concept)
        downstream_count == DownstreamCount(adjacency, concepts, concept)
    IN [concept_id |-> concept,
        students_affected |-> students_below,
        downstream_concepts |-> downstream_count,
        current_readiness |-> current_readiness,
        impact |-> ImpactOf(students_below, downstream_count, current_readiness)]

\* the loop over the concepts: a concept nobody is below is skipped
Interventions(final_readiness_matrix, concepts, adjacency, threshold) ==
    LET below == SelectSeq(concepts, LAMBDA c :
                     StudentsBelow(final_readiness_matrix, c, threshold) # 0)
    IN [i \in 1..Len(below) |->
           Intervention(final_readiness_matrix, concepts, adjacency, threshold, below[i])]

\* interventions.sort(key=impact, reverse=True): each item goes behind the
\* items placed before it whose impact is not smaller
RECURSIVE SortByImpact(_, _)
SortByImpact(sorted, rest) ==
    IF rest = <<>> THEN sorted
    ELSE LET x == Head(rest)
             ahead == Cardinality({i \in 1..Len(sorted) : RLe(x.impact, sorted[i].impact)})
         IN SortByImpact(SubSeq(sorted, 1, ahead) \o <<x>> \o SubSeq(sorted, ahead + 1, Len(sorted)),
                         Tail(rest))

rank_interventions(final_readiness_matrix, concepts, adjacency, threshold) ==
    SortByImpact(<<>>, Interventions(final_readiness_matrix, concepts, adjacency, threshold))

\* drawn inputs: no to three students over the concepts A, B, C, D, three
\* graphs and three thresholds
RankConcepts == {<<"A">>, <<"A", "B", "C", "D">>}
RankStudentLists == {<<>>} \cup ClusterStudentLists
RankThresholds == {Zero, Tenths(5), Tenths(6)}
RankEdges == {{}, {<<"A", "B">>, <<"A", "C">>, <<"C", "D">>}, {<<"A", "B">>, <<"B", "C">>, <<"B", "D">>, <<"B", "A">>}}
RankAdjacency(edges, concepts) ==
    [u \in Range(concepts) |-> [v \in Range(concepts) |->
        IF <<u, v>> \in edges THEN Tenths(5) ELSE Zero]]

RankInputsOf(students) ==
    {[final_readiness_matrix |-> MatrixOf(rows, concepts), concepts |-> concepts,
      adjacency |-> RankAdjacency(edges, concepts), threshold |-> threshold] :
        concepts \in RankConcepts, threshold \in RankThresholds, edges \in RankEdges,
        rows \in [Range(students) -> ReadinessRows]}
RankInputs == UNION {RankInputsOf(students) : students \in RankStudentLists}

InitRank ==
    /\ snapshots = <<>>
    /\ sess = [s \in Sessions |-> Idle]
    /\ nAccepted = 0
    /\ \E x \in RankInputs :
          call = [op |-> "input", arg |-> x, result |-> None]
    /\ exam = NoExam
    /\ run = NoRun

RankInterventions ==
    /\ call.op = "input"
    /\ call' = [op |-> "rank_interventions", arg |-> call.arg,
                result |-> rank_interventions(call.arg.final_readiness_matrix, call.arg.concepts,
                                              call.arg.adjacency, call.arg.threshold)]
    /\ UNCHANGED <<snapshots, sess, nAccepted, exam, run>>

NextRank == RankInterventions

SpecRank == InitRank /\ [][NextRank]_vars

\* what rank_interventions was given and what it returned
Ranked == call.op = "rank_interventions"
Below(concept) ==
    {s \in DOMAIN call.arg.final_readiness_matrix :
        RLt(call.arg.final_readiness_matrix[s][concept], call.arg.threshold)}
ColumnSum(concept) ==
    RSumOver([s \in DOMAIN call.arg.final_readiness_matrix |->
                 call.arg.final_readiness_matrix[s][concept]],
             DOMAIN call.arg.final_readiness_matrix)
Downstream(concept) ==
    {v \in Range(call.arg.concepts) : RLt(Zero, call.arg.adjacency[concept][v])}

GreenAbove == Tenths(7)
YellowFrom == Tenths(4)
MasteryThreshold == Tenths(7)
LowDirect == Tenths(6)
PenaltyNoted == Tenths(1)
TopWeak == 5

\* {r["concept_id"]: r for r in student_results}: the last result of a concept
HasResult(student_results, concept_id) ==
    \E i \in DOMAIN student_results : student_results[i].concept_id = concept_id
ResultOf(student_results, concept_id) ==
    LET last == CHOOSE i \in DOMAIN student_results :
                   /\ student_results[i].concept_id = concept_id
                   /\ \A k \in DOMAIN student_results :
                         student_results[k].concept_id = concept_id => k <= i
    IN student_results[last]

get_concept_label(graph_json, concept_id) ==
    LET found == SelectSeq(graph_json.nodes, LAMBDA node : node.id = concept_id)
    IN IF found = <<>> THEN concept_id ELSE LabelOf(Head(found))

\* mutant: readiness 0.7 counts as green
ColorOfGreenFrom(final) ==
    IF RLe(GreenAbove, final) THEN "green"
    ELSE IF RLe(YellowFrom, final) THEN "yellow"
    ELSE "red"
ColorOf(final) ==
    IF RLt(GreenAbove, final) THEN "green"
    ELSE IF RLe(YellowFrom, final) THEN "yellow"
    ELSE "red"

PersonalNode(node, student_results) ==
    IF HasResult(student_results, node.id)
    THEN LET final == ResultOf(student_results, node.id).final_readiness
         IN [id |-> node.id, label |-> LabelOf(node),
             readiness |-> Some(final), color |-> ColorOf(final)]
    ELSE [id |-> node.id, label |-> LabelOf(node), readiness |-> None, color |-> "gray"]

build_personal_graph(graph_json, student_results) ==
    [nodes |-> [i \in DOMAIN graph_json.nodes |-> PersonalNode(graph_json.nodes[i], student_results)],
     edges |-> graph_json.edges]

Reason(r) ==
    IF r.direct_readiness.some /\ RLt(r.direct_readiness.val, LowDirect)
    THEN "Low direct performance on exam questions"
    ELSE IF RLt(PenaltyNoted, r.prerequisite_penalty)
    THEN "Weakness in prerequisite concepts"
    ELSE "Below mastery threshold"

Explanation(r) ==
    <<"readiness">>
    \o (IF r.direct_readiness.some THEN <<"direct">> ELSE <<>>)
    \o (IF RLt(Zero, r.prerequisite_penalty) THEN <<"penalty">> ELSE <<>>)
    \o (IF RLt(Zero, r.downstream_boost) THEN <<"boost">> ELSE <<>>)

PlanEntry(graph_json, r) ==
    [concept_id |-> r.concept_id,
     concept_label |-> get_concept_label(graph_json, r.concept_id),
     readiness |-> r.final_readiness,
     confidence |-> r.confidence,
     reason |-> Reason(r),
     explanation |-> Explanation(r)]

\* mutant: the plan follows the order of the results, not of the graph
PlanOrderOfResults(topo_order, student_results) ==
    LET listed == SelectSeq(student_results, LAMBDA r :
                      \E i \in DOMAIN topo_order : topo_order[i] = r.concept_id)
    IN [i \in DOMAIN listed |-> listed[i].concept_id]
PlanOrder(topo_order, student_results) ==
    SelectSeq(topo_order, LAMBDA concept_id :
        /\ HasResult(student_results, concept_id)
        /\ RLt(ResultOf(student_results, concept_id).final_readiness, MasteryThreshold))

\* the study plan, or raised when the graph has no topological order
build_study_plan(graph_json, student_results) ==
    LET topo_order == get_topological_order(build_graph(graph_json))
        plan == PlanOrder(topo_order.order, student_results)
    IN IF topo_order.raised THEN [raised |-> TRUE, plan |-> <<>>]
       ELSE [raised |-> FALSE,
             plan |-> [i \in DOMAIN plan |->
                          PlanEntry(graph_json, ResultOf(student_results, plan[i]))]]

\* sorted(student_results, key=final_readiness): stable, smallest first
RECURSIVE SortByReadiness(_, _)
SortByReadiness(sorted, rest) ==
    IF rest = <<>> THEN sorted
    ELSE LET x == Head(rest)
             ahead == Cardinality({i \in 1..Len(sorted) :
                          RLe(sorted[i].final_readiness, x.final_readiness)})
         IN SortByReadiness(SubSeq(sorted, 1, ahead) \o <<x>> \o SubSeq(sorted, ahead + 1, Len(sorted)),
                            Tail(rest))

TopWeakOf(graph_json, student_results) ==
    LET sorted_by_readiness == SortByReadiness(<<>>, student_results)
    IN [i \in 1..Min(TopWeak, Len(sorted_by_readiness)) |->
           [concept_id |-> sorted_by_readiness[i].concept_id,
            concept_label |-> get_concept_label(graph_json, sorted_by_readiness[i].concept_id),
            readiness |-> sorted_by_readiness[i].final_readiness,
            confidence |-> sorted_by_readiness[i].confidence]]

ReadinessList(graph_json, student_results) ==
    [i \in DOMAIN student_results |->
        [concept_id |-> student_results[i].concept_id,
         concept_label |-> get_concept_label(graph_json, student_results[i].concept_id),
         direct_readiness |-> student_results[i].direct_readiness,
         final_readiness |-> student_results[i].final_readiness,
         confidence |-> student_results[i].confidence]]

build_student_report(student_id, exam_id, graph_json, readiness_results) ==
    LET student_results == SelectSeq(readiness_results, LAMBDA r : r.student_id = student_id)
        study_plan == build_study_plan(graph_json, student_results)
    IN IF student_results = <<>>
       THEN [raised |-> FALSE, student_id |-> student_id, exam_id |-> exam_id,
             concept_graph |-> graph_json, readiness |-> <<>>,
             top_weak_concepts |-> <<>>, study_plan |-> <<>>]
       ELSE IF study_plan.raised
       THEN [raised |-> TRUE]
       ELSE [raised |-> FALSE, student_id |-> student_id, exam_id |-> exam_id,
             concept_graph |-> build_personal_graph(graph_json, student_results),
             readiness |-> ReadinessList(graph_json, student_results),
             top_weak_concepts |-> TopWeakOf(graph_json, student_results),
             study_plan |-> study_plan.plan]

\* drawn inputs: the stored graphs of the pipeline, the graph of an exam
\* without snapshot and a chain from C to A; per concept of A, B, C no result or one of six results
\* (final readiness 0.3, 0.4, 0.6 after a penalty, 0.7, 0.8, and 0.0 with no
\* direct readiness); with or without a result of another student
ReportGraphs ==
    PipelineGraphs \cup
    {[nodes |-> <<>>, edges |-> <<>>],
     [nodes |-> <<NodeJson("A"), NodeJson("B"), NodeJson("C")>>,
      edges |-> <<EdgeJson("C", "B", 10), EdgeJson("B", "A", 5)>>]}
ReportConcepts == <<"A", "B", "C">>
ResultRow(student, concept, direct, penalty, final) ==
    [student_id |-> student, concept_id |-> concept, direct_readiness |-> direct,
     prerequisite_penalty |-> penalty, downstream_boost |-> Zero,
     final_readiness |-> final, confidence |-> "high"]
ResultProfiles(student, concept) ==
    {ResultRow(student, concept, Some(Tenths(3)), Zero, Tenths(3)),
     ResultRow(student, concept, Some(Tenths(4)), Zero, Tenths(4)),
     ResultRow(student, concept, Some(Tenths(8)), Tenths(2), Tenths(6)),
     ResultRow(student, concept, Some(Tenths(7)), Zero, Tenths(7)),
     ResultRow(student, concept, Some(Tenths(8)), Zero, Tenths(8)),
     ResultRow(student, concept, None, Zero, Zero)}
Optional(S) == {<<>>} \cup {<<x>> : x \in S}
ReportResults ==
    {a \o b \o c \o other :
        a \in Optional(ResultProfiles("s1", "A")),
        b \in Optional(ResultProfiles("s1", "B")),
        c \in Optional(ResultProfiles("s1", "C")),
        other \in Optional({ResultRow("s2", "A", Some(Tenths(3)), Zero, Tenths(3))})}

InitReport ==
    /\ snapshots = <<>>
    /\ sess = [s \in Sessions |-> Idle]
    /\ nAccepted = 0
    /\ \E graph_json \in ReportGraphs, readiness_results \in ReportResults :
          call = [op |-> "input",
                  arg |-> [student_id |-> "s1", graph_json |-> graph_json,
                           readiness_results |-> readiness_results],
                  result |-> None]
    /\ exam = NoExam
    /\ run = NoRun

BuildStudentReport ==
    /\ call.op = "input"
    /\ call' = [op |-> "build_student_report", arg |-> call.arg,
                result |-> build_student_report(call.arg.student_id, "e1", call.arg.graph_json,
                                                call.arg.readiness_results)]
    /\ UNCHANGED <<snapshots, sess, nAccepted, exam, run>>

NextReport == BuildStudentReport

SpecReport == InitReport /\ [][NextReport]_vars

\* the report that was built, the results of its student and the pairs of
\* the graph's edges
Reported == call.op = "build_student_report"
OwnResults == SelectSeq(call.arg.readiness_results, LAMBDA r : r.student_id = call.arg.student_id)
WeakIds == {OwnResults[i].concept_id : i \in {k \in DOMAIN OwnResults :
                RLt(OwnResults[k].final_readiness, Tenths(7))}}
PlanIds == [i \in DOMAIN call.result.study_plan |-> call.result.study_plan[i].concept_id]
ReportPairs == {Pair(call.arg.graph_json.edges[i]) : i \in DOMAIN call.arg.graph_json.edges}
OrderedByGraph ==
    \A i, j \in DOMAIN PlanIds : <<PlanIds[i], PlanIds[j]>> \in ReportPairs => i < j

\* C25: the study plan of a report holds each concept whose final readiness
\* for the student is below 0.7 exactly once, and for every edge p -> c of
\* the graph with p and c both in the plan, p comes before c.
C25_StudyPlan ==
    Reported /\ OwnResults # <<>> =>
        /\ ~call.result.raised
        /\ \A c \in WeakIds : Cardinality({i \in DOMAIN PlanIds : PlanIds[i] = c}) = 1
        /\ Range(PlanIds) \subseteq WeakIds
        /\ OrderedByGraph

\* C25 as the code has it: the plan holds each node of the graph passed in
\* whose final readiness for the student is below 0.7 exactly once and no
\* other concept, with p before c for every edge p -> c between two of them.
C25_StudyPlanOfGraphNodes ==
    Reported /\ OwnResults # <<>> =>
        /\ ~call.result.raised
        /\ \A c \in WeakIds \cap JsonIds(call.arg.graph_json) :
              Cardinality({i \in DOMAIN PlanIds : PlanIds[i] = c}) = 1
        /\ Range(PlanIds) = WeakIds \cap JsonIds(call.arg.graph_json)
        /\ OrderedByGraph

\* a plan of three concepts over a graph whose nodes are listed against
\* its edges, beside a result of another student
C25_Witness ==
    /\ Reported
    /\ Len(OwnResults) = 3
    /\ Len(OwnResults) < Len(call.arg.readiness_results)
    /\ Len(PlanIds) = 3
    /\ Cardinality(ReportPairs) = 2
    /\ PlanIds # [i \in DOMAIN call.arg.graph_json.nodes |-> call.arg.graph_json.nodes[i].id]
    /\ PlanIds # [i \in DOMAIN OwnResults |-> OwnResults[i].concept_id]

\* C26: for a student without readiness results build_student_report does
\* not fail and returns an empty report: a concept graph without nodes and
\* edges, an empty readiness list, an empty list of weak concepts and an
\* empty study plan, whatever graph is passed in.
C26_EmptyReport ==
    Reported /\ OwnResults = <<>> =>
        /\ ~call.result.raised
        /\ call.result.concept_graph.nodes = <<>>
        /\ call.result.concept_graph.edges = <<>>
        /\ call.result.readiness = <<>>
        /\ call.result.top_weak_concepts = <<>>
        /\ call.result.study_plan = <<>>

\* the personal graph of the report and the colour a node must have
Personal == call.result.concept_graph
Expected(id) ==
    IF \A i \in DOMAIN OwnResults : OwnResults[i].concept_id # id THEN "gray"
    ELSE LET f == (CHOOSE r \in Range(OwnResults) : r.concept_id = id).final_readiness
         IN IF RLt(Tenths(7), f) THEN "green"
            ELSE IF RLe(Tenths(4), f) /\ RLe(f, Tenths(7)) THEN "yellow"
            ELSE IF RLt(f, Tenths(4)) THEN "red"
            ELSE "none"

Predecessors(G, n) == {G.edges[i].source : i \in {k \in 1..Len(G.edges) : G.edges[k].target = n}}

\* the depth of a node of an acyclic graph: one more than the largest depth
\* of its predecessors, 0 without predecessors
RECURSIVE DepthOf(_, _)
DepthOf(G, n) ==
    LET preds == Predecessors(G, n)
        ds == {DepthOf(G, p) : p \in preds}
    IN IF preds = {} THEN 0 ELSE 1 + (CHOOSE d \in ds : \A e \in ds : e <= d)

GraphRetrieveResponse(graph_row) ==
    LET G == build_graph(graph_row.graph_json)
        json == graph_to_json(G)
        acyclic == is_directed_acyclic_graph(G)
    IN [status |-> "ok",
        version |-> graph_row.version,
        nodes |-> [i \in DOMAIN json.nodes |->
                      [id |-> json.nodes[i].id, label |-> json.nodes[i].label,
                       readiness |-> None, is_csv_observed |-> FALSE,
                       depth |-> IF acyclic THEN DepthOf(G, json.nodes[i].id) ELSE 0]],
        edges |-> json.edges]

GetGraph ==
    /\ \E graph_row \in LatestRows(snapshots) :
          call' = [op |-> "get_graph", arg |-> EmptyJson,
                   result |-> GraphRetrieveResponse(graph_row)]
    /\ UNCHANGED <<snapshots, sess, nAccepted, exam, run>>

\* PATCH requests of two clients and GET requests, interleaved
NextRead ==
    \/ \E s \in Sessions : \E body \in ConcBodies : PatchGraph(s, body)
    \/ \E s \in Sessions : Commit(s)
    \/ \E s \in Sessions : Close(s)
    \/ GetGraph

SpecRead == Init /\ [][NextRead]_vars

\* the sessions that hold the row they read, and those whose accepted patch
\* is committed
Reading == {s \in Sessions : sess[s].pc \in {"returned", "committed"}}
Stored == {s \in Sessions : sess[s].pc = "committed" /\ sess[s].response.status = "success"}

\* C28: an accepted PATCH modifies and deletes no stored snapshot and
\* appends one complete row: the uploaded row stays first, there is one more
\* row per accepted patch, a row that a request read is still stored as it
\* was read, the row of a committed patch is the whole result of the patch
\* on the row it read, and what a reader of the latest snapshot answers is
\* the graph of one stored row, nodes and edges alike.
C28_AppendOnly ==
    /\ snapshots[1].version = InitialVersion
    /\ snapshots[1].graph_json \in InitialGraphs
    /\ Len(snapshots) = 1 + nAccepted
    /\ \A s \in Reading : sess[s].graph_row \in Range(snapshots)
    /\ \A s \in Stored :
          /\ Len(sess[s].pending) = 1
          /\ sess[s].pending[1] \in Range(snapshots)
          /\ sess[s].pending[1].graph_json =
                apply_patch(sess[s].graph_row.graph_json, sess[s].body).graph
    /\ call.op = "get_graph" =>
          \E row \in Range(snapshots) : call.result = GraphRetrieveResponse(row)

\* a reader answered with the graph of version 1 with its edge, then a
\* patch that removes the edge was committed as version 2 while another
\* request still holds the row of version 1
C28_Witness ==
    /\ call.op = "get_graph"
    /\ call.result.version = InitialVersion
    /\ call.result.edges # <<>>
    /\ \E s \in Stored :
          /\ sess[s].graph_row.version = InitialVersion
          /\ sess[s].pending[1].graph_json.edges = <<>>
          /\ sess[s].pending[1].graph_json.nodes # <<>>
    /\ \E s \in Reading : sess[s].pc = "returned" /\ sess[s].graph_row.version = InitialVersion

\* the edges of a graph JSON on the pair p, the add_edges entries of a body
\* on p, and the weight of the last of them
EdgesOn(j, p) == {i \in 1..Len(j.edges) : Pair(j.edges[i]) = p}
AddsOn(body, p) == {i \in 1..Len(body.add_edges) : Pair(body.add_edges[i]) = p}
LastAdded(body, p) ==
    body.add_edges[CHOOSE i \in AddsOn(body, p) : \A k \in AddsOn(body, p) : k <= i].weight
RemovedPairs(body) == {Pair(body.remove_edges[i]) : i \in 1..Len(body.remove_edges)}

\* a patch of add_edges entries alone, each on a pair that has an edge and
\* with a weight from 0 to 1
OnlyReplaces(s) ==
    /\ sess[s].body.add_nodes = <<>>
    /\ sess[s].body.remove_nodes = <<>>
    /\ sess[s].body.remove_edges = <<>>
    /\ sess[s].body.add_edges # <<>>
    /\ \A i \in 1..Len(sess[s].body.add_edges) :
          /\ Pair(sess[s].body.add_edges[i]) \in JsonPairs(Input(s))
          /\ sess[s].body.add_edges[i].weight \in 0..10

\* C29: an add_edges entry on an ordered pair that has an edge is accepted
\* without error and replaces the weight of the edge; every stored graph
\* has at most one edge per ordered pair; in the graph of an accepted patch
\* the weight of an edge is that of the patch's last add_edges entry on its
\* pair, and that of the graph the patch was applied to where the patch has
\* no such entry.
C29_OneEdgePerPair ==
    /\ \A k \in 1..Len(snapshots) : \A p \in JsonPairs(snapshots[k].graph_json) :
          Cardinality(EdgesOn(snapshots[k].graph_json, p)) = 1
    /\ \A s \in Applied :
          LET r == sess[s].result
              body == sess[s].body
          IN /\ OnlyReplaces(s) =>
                   /\ r.errors = <<>>
                   /\ sess[s].response.status = "success"
                   /\ JsonPairs(r.graph) = JsonPairs(Input(s))
             /\ r.errors = <<>> =>
                   /\ \A p \in JsonPairs(r.graph) :
                         /\ Cardinality(EdgesOn(r.graph, p)) = 1
                         /\ r.graph.edges[CHOOSE i \in EdgesOn(r.graph, p) : TRUE].weight =
                               IF AddsOn(body, p) # {} THEN LastAdded(body, p)
                               ELSE Input(s).edges[CHOOSE i \in EdgesOn(Input(s), p) : TRUE].weight
                   /\ \A i \in 1..Len(body.add_edges) :
                         Pair(body.add_edges[i]) \notin RemovedPairs(body) =>
                            Pair(body.add_edges[i]) \in JsonPairs(r.graph)

\* the edge A -> B uploaded with weight 0.5, set to 1.0 by one patch and
\* then by a patch with two entries on it, 1.0 and 0.5, back to 0.5
C29_Witness ==
    /\ Len(snapshots) = 3
    /\ sess[1].pc = "committed"
    /\ OnlyReplaces(1)
    /\ Len(sess[1].body.add_edges) = 2
    /\ Cardinality(AddsOn(sess[1].body, <<"A", "B">>)) = 2
    /\ sess[1].body.add_edges[1].weight = 10
    /\ sess[1].body.add_edges[2].weight = 5
    /\ \E i \in EdgesOn(snapshots[1].graph_json, <<"A", "B">>) :
          snapshots[1].graph_json.edges[i].weight = 5
    /\ \E i \in EdgesOn(snapshots[2].graph_json, <<"A", "B">>) :
          snapshots[2].graph_json.edges[i].weight = 10
    /\ \E i \in EdgesOn(snapshots[3].graph_json, <<"A", "B">>) :
          snapshots[3].graph_json.edges[i].weight = 5

====
